---- MODULE Spec2Model ----
(***************************************************************************)
(* Microdote flashcards: note -> card compilation, the HTTP handlers that  *)
(* create notes, answer and flag cards, edit note types, and the card      *)
(* regeneration that follows a template edit.                              *)
(*                                                                         *)
(* Two copies of the data exist and both are modelled: the in-memory       *)
(* Collection (noteTypes, memNotes, memCards, the id counters) and the     *)
(* SQLite store (storeNoteTypes, storeNotes, storeCards, storeDecks).      *)
(*                                                                         *)
(* Text is modelled structurally.  A template string is a sequence of      *)
(* parts, each a literal or a {{...}} token; a field value is a sequence   *)
(* of segments, each plain text or a {{cN::answer::hint}} cloze marker.    *)
(* Rendered card sides are real strings built with \o.  Request bodies are *)
(* drawn from tag-free text, which the HTML sanitizer returns unchanged.   *)
(***************************************************************************)
EXTENDS Integers, Sequences, FiniteSets, TLC

VARIABLES
    noteTypes,       \* Collection.NoteTypes: name -> note type (in memory)
    storeNoteTypes,  \* note_types table
    memNotes,        \* Collection.Notes: id -> note
    storeNotes,      \* notes table: id -> note
    memCards,        \* Collection.Cards: id -> card
    storeCards,      \* cards table: id -> card (id is the primary key)
    memDecks,        \* Collection.Decks (ids)
    storeDecks,      \* decks table (ids)
    nextNoteID,      \* Collection.nextNoteID
    nextCardID,      \* Collection.nextCardID
    nextDeckID,      \* Collection.nextDeckID
    usn,             \* Collection.USN
    last,            \* the request handled last and what it did (history)
    regen,           \* the regeneration in progress, when requests interleave
    cardOps,         \* AnswerCard and UpdateCard requests handled so far
    cIn,             \* compilation harness: the input (note type, note)
    cOut,            \* compilation harness: the cards compiled from cIn
    inflight         \* requests being handled concurrently: goroutine -> its locals

vars == <<noteTypes, storeNoteTypes, memNotes, storeNotes, memCards, storeCards,
          memDecks, storeDecks, nextNoteID, nextCardID, nextDeckID, usn, last,
          regen, cardOps, cIn, cOut, inflight>>

-----------------------------------------------------------------------------
(* Bounds of the model *)

MaxNotes == 2
MaxCardOps == 1
MaxPosition == 5
MaxOrdinal == 3
MaxStoredID == 3
MaxLoadedID == 4
MaxTime == 3
DefaultLimit == 10
MaxRequests == 2
MaxFlagOps == 3

-----------------------------------------------------------------------------
(* Text *)

Lit(s) == [k |-> "lit", s |-> s, f |-> "", n |-> ""]
Tok(f, n) == [k |-> "tok", s |-> "", f |-> f, n |-> n]

Txt(s) == [k |-> "txt", s |-> s, ord |-> 0, hint |-> ""]
Cz(ord, ans, hint) == [k |-> "cz", s |-> ans, ord |-> ord, hint |-> hint]

Empty == << >>

RECURSIVE Concat(_)
Concat(ss) == IF ss = << >> THEN "" ELSE Head(ss) \o Concat(Tail(ss))

\* The text of one segment of a field value as the user typed it.
SegText(g) ==
    IF g.k = "txt" THEN g.s
    ELSE "{{c" \o ToString(g.ord) \o "::" \o g.s
         \o (IF g.hint = "" THEN "" ELSE "::" \o g.hint) \o "}}"

FieldText(v) == Concat([i \in 1..Len(v) |-> SegText(v[i])])

\* A map read that leaves the token in place for an absent key.
LookupPassthrough(fields, key) ==
    IF key \in DOMAIN fields THEN fields[key] ELSE <<Txt("{{" \o key \o "}}")>>

\* fields[key]: a Go map read, the zero value "" for an absent key.
Lookup(fields, key) == IF key \in DOMAIN fields THEN fields[key] ELSE Empty

\* strings.TrimSpace(s) == "" for the plain text the model draws from.
IsSpace(s) == s \in {"", " ", "  "}
TrimSpaceEmpty(v) == \A i \in 1..Len(v) : v[i].k = "txt" /\ IsSpace(v[i].s)

\* The key of a token: the text between {{ and }}.
TokKey(p) == p.f \o p.n

-----------------------------------------------------------------------------
(* Rendering *)

renderTemplatePart(p, fields) ==
    IF p.k = "lit" THEN p.s
    ELSE IF p.f = "type:"
         THEN IF FieldText(Lookup(fields, p.n)) = ""
              THEN "[type: empty]" ELSE "[type your answer here]"
         ELSE FieldText(Lookup(fields, TokKey(p)))

renderTemplate(tmpl, fields) ==
    Concat([i \in 1..Len(tmpl) |-> renderTemplatePart(tmpl[i], fields)])

\* A renderer that masks every marker on the front, whatever its ordinal.
renderClozeSegMaskAll(g, targetOrdinal, reveal) ==
    IF g.k = "txt" THEN g.s
    ELSE IF reveal
         THEN IF g.ord = targetOrdinal THEN "**" \o g.s \o "**" ELSE g.s
         ELSE IF ~IsSpace(g.hint) THEN "[" \o g.hint \o "]" ELSE "[...]"

renderClozeSeg(g, targetOrdinal, reveal) ==
    IF g.k = "txt" THEN g.s
    ELSE IF reveal
         THEN IF g.ord = targetOrdinal THEN "**" \o g.s \o "**" ELSE g.s
         ELSE IF g.ord = targetOrdinal
              THEN IF ~IsSpace(g.hint) THEN "[" \o g.hint \o "]" ELSE "[...]"
              ELSE g.s

renderCloze(text, targetOrdinal, reveal) ==
    Concat([i \in 1..Len(text) |-> renderClozeSeg(text[i], targetOrdinal, reveal)])

renderTemplateWithCloze(tmpl, fields, targetOrdinal, reveal) ==
    Concat([i \in 1..Len(tmpl) |->
        IF tmpl[i].k = "lit" THEN tmpl[i].s
        ELSE IF TokKey(tmpl[i]) = "cloze:Text"
             THEN renderCloze(Lookup(fields, "Text"), targetOrdinal, reveal)
             ELSE FieldText(Lookup(fields, TokKey(tmpl[i])))])

RECURSIVE SortInts(_)
SortInts(S) ==
    IF S = {} THEN << >>
    ELSE LET m == CHOOSE x \in S : \A y \in S : x <= y
         IN <<m>> \o SortInts(S \ {m})

extractClozeOrdinals(text) ==
    SortInts({text[i].ord : i \in {j \in 1..Len(text) : text[j].k = "cz" /\ text[j].ord > 0}})

-----------------------------------------------------------------------------
(* Scheduler: the FSRS state is opaque; its number of repetitions stands  *)
(* for it.                                                                 *)

newDueNow == [reps |-> 0]
Repeat(srs) == [srs EXCEPT !.reps = @ + 1]

-----------------------------------------------------------------------------
(* Note -> card generation *)

Card(id, noteId, deckId, templateName, ordinal, front, back) ==
    [id |-> id, noteId |-> noteId, deckId |-> deckId,
     templateName |-> templateName, ordinal |-> ordinal,
     front |-> front, back |-> back, srs |-> newDueNow,
     flag |-> 0, marked |-> FALSE, suspended |-> FALSE, usn |-> 0]

\* The cards one template yields for a note (ids not yet assigned: 0).
TemplateCards(tmpl, n, deckID) ==
    IF tmpl.ifFieldNonEmpty # "" /\ TrimSpaceEmpty(Lookup(n.fieldMap, tmpl.ifFieldNonEmpty))
    THEN << >>
    ELSE IF tmpl.isCloze
         THEN LET ordinals == extractClozeOrdinals(Lookup(n.fieldMap, "Text"))
              IN [i \in 1..Len(ordinals) |->
                    Card(0, n.id, deckID, tmpl.name, ordinals[i],
                         renderTemplateWithCloze(tmpl.qFmt, n.fieldMap, ordinals[i], FALSE),
                         renderTemplateWithCloze(tmpl.aFmt, n.fieldMap, ordinals[i], TRUE))]
         ELSE << Card(0, n.id, deckID, tmpl.name, 0,
                      renderTemplate(tmpl.qFmt, n.fieldMap),
                      renderTemplate(tmpl.aFmt, n.fieldMap)) >>

RECURSIVE GenFrom(_, _, _, _)
GenFrom(templates, i, n, deckID) ==
    IF i > Len(templates) THEN << >>
    ELSE TemplateCards(templates[i], n, deckID) \o GenFrom(templates, i + 1, n, deckID)

\* A loop that stops at the first gated-out template instead of skipping it.
RECURSIVE GenFromBreak(_, _, _, _)
GenFromBreak(templates, i, n, deckID) ==
    IF i > Len(templates) THEN << >>
    ELSE IF templates[i].ifFieldNonEmpty # ""
            /\ TrimSpaceEmpty(Lookup(n.fieldMap, templates[i].ifFieldNonEmpty))
         THEN << >>
         ELSE TemplateCards(templates[i], n, deckID)
              \o GenFromBreak(templates, i + 1, n, deckID)

generateCardsFromNoteBreak(nt, n, deckID) == GenFromBreak(nt.templates, 1, n, deckID)

generateCardsFromNote(nt, n, deckID) == GenFrom(nt.templates, 1, n, deckID)

-----------------------------------------------------------------------------
(* Built-in note types *)

Template(name, qFmt, aFmt, gate, isCloze) ==
    [name |-> name, qFmt |-> qFmt, aFmt |-> aFmt,
     ifFieldNonEmpty |-> gate, isCloze |-> isCloze, deckOverride |-> ""]

QFront == <<Lit("Q: "), Tok("", "Front")>>
ABack == <<Lit("A: "), Tok("", "Back")>>
QBack == <<Lit("Q: "), Tok("", "Back")>>
AFront == <<Lit("A: "), Tok("", "Front")>>

builtins ==
    [name \in {"Basic", "Basic (and reversed card)", "Basic (optional reversed card)",
               "Basic (type in the answer)", "Cloze"} |->
       CASE name = "Basic" ->
              [name |-> name, fields |-> <<"Front", "Back">>, sortFieldIndex |-> 0,
               templates |-> << Template("Card 1", QFront, ABack, "", FALSE) >>]
         [] name = "Basic (and reversed card)" ->
              [name |-> name, fields |-> <<"Front", "Back">>, sortFieldIndex |-> 0,
               templates |-> << Template("Card 1", QFront, ABack, "", FALSE),
                                Template("Card 2", QBack, AFront, "", FALSE) >>]
         [] name = "Basic (optional reversed card)" ->
              [name |-> name, fields |-> <<"Front", "Back", "Add Reverse">>,
               sortFieldIndex |-> 0,
               templates |-> << Template("Card 1", QFront, ABack, "", FALSE),
                                Template("Card 2 (optional reverse)", QBack, AFront,
                                         "Add Reverse", FALSE) >>]
         [] name = "Basic (type in the answer)" ->
              [name |-> name, fields |-> <<"Front", "Back">>, sortFieldIndex |-> 0,
               templates |-> << Template("Card 1",
                                   <<Lit("Q: "), Tok("", "Front"), Lit("\n\n"), Tok("type:", "Back")>>,
                                   ABack, "", FALSE) >>]
         [] name = "Cloze" ->
              [name |-> name, fields |-> <<"Text", "Extra">>, sortFieldIndex |-> 0,
               templates |-> << Template("Cloze",
                                   <<Lit("Q: "), Tok("cloze:", "Text")>>,
                                   <<Lit("A: "), Tok("cloze:", "Text"), Lit("\n\nExtra: "),
                                     Tok("", "Extra")>>,
                                   "", TRUE) >>]]

-----------------------------------------------------------------------------
(* Small helpers on maps *)

Put(f, k, v) == [x \in (DOMAIN f) \cup {k} |-> IF x = k THEN v ELSE f[x]]
Drop(f, S) == [x \in (DOMAIN f) \ S |-> f[x]]

SeqOfSet(S) == SortInts(S)

CardKey(c) == <<c.templateName, c.ordinal>>

\* Option values of a request body: << >> when the key is absent, <<v>> when set.
None == << >>
Some(v) == <<v>>

-----------------------------------------------------------------------------
(* Storage: the SQLite tables with their primary and foreign keys          *)
(* (foreign keys are enforced: the database is opened with foreign_keys). *)

\* INSERT INTO cards: fails on a taken primary key or a dangling foreign key.
CreateCardOK(cards, c, notes, decks) ==
    /\ c.id \notin DOMAIN cards
    /\ c.noteId \in DOMAIN notes
    /\ c.deckId \in decks

StoreCreateCard(cards, c, notes, decks) ==
    IF CreateCardOK(cards, c, notes, decks) THEN Put(cards, c.id, c) ELSE cards

\* UPDATE cards SET ... WHERE id = ?: no row, no change, no error.
StoreUpdateCard(cards, c) == IF c.id \in DOMAIN cards THEN Put(cards, c.id, c) ELSE cards

StoreDeleteCard(cards, id) == Drop(cards, {id})

\* SELECT ... FROM cards WHERE note_id = ?: a scan of the table in rowid order.
GetCardsByNote(cards, noteID) ==
    LET ids == SeqOfSet({id \in DOMAIN cards : cards[id].noteId = noteID})
    IN [i \in 1..Len(ids) |-> cards[ids[i]]]

\* SELECT ... FROM notes WHERE type_id = ?: a scan of the table in rowid order.
GetNotesByType(notes, ntName) ==
    LET ids == SeqOfSet({id \in DOMAIN notes : notes[id].type = ntName})
    IN [i \in 1..Len(ids) |-> notes[ids[i]]]

-----------------------------------------------------------------------------
(* History: what the last request was and what it did *)

NoLast ==
    [op |-> "none", ok |-> TRUE, nt |-> "", err |-> FALSE,
     regenerated |-> {}, toCreate |-> {}, updated |-> {}, changed |-> {},
     deleted |-> {}, old |-> "", new |-> "", readFailed |-> {},
     field |-> "", value |-> << >>, deck |-> 0, found |-> << >>,
     fields |-> << >>, rejected |-> FALSE,
     limit |-> 0, now |-> 0, card |-> 0, req |-> << >>]

NoRegen == [pc |-> "idle"]

-----------------------------------------------------------------------------
(* Regeneration of the cards of one note type (regenerateCardsForNoteType) *)

\* Collection.GenerateCards: compile the note against the current templates.
GenerateCards(nts, note, deckID) == generateCardsFromNote(nts[note.type], note, deckID)

\* existingCardMap: "templateName:ordinal" -> card, a later card replacing an
\* earlier one under the same key.
ExistingKeys(existing) == {CardKey(existing[i]) : i \in 1..Len(existing)}
ExistingCard(existing, key) ==
    LET is == {i \in 1..Len(existing) : CardKey(existing[i]) = key}
    IN existing[CHOOSE i \in is : \A j \in is : j <= i]

\* A write-back that takes everything but the id from the new draft.
ReconciledFromDraft(existingCard, newCard) == [newCard EXCEPT !.id = existingCard.id]

\* The matched card as written back: content from the draft, the rest as read.
Reconciled(existingCard, newCard) ==
    [existingCard EXCEPT !.front = newCard.front, !.back = newCard.back]

\* A regeneration that never deletes.
NoOrphans(existing, keys) == {}

\* The cards left in the map once every draft is processed.
Orphans(existing, keys) == {ExistingCard(existing, k).id : k \in keys}

RECURSIVE ProcessDrafts(_, _, _, _)
ProcessDrafts(newCards, i, existing, st) ==
    IF i > Len(newCards) THEN st
    ELSE LET newCard == newCards[i]
             key == CardKey(newCard)
         IN IF key \in st.keys
            THEN LET c == Reconciled(ExistingCard(existing, key), newCard)
                 IN ProcessDrafts(newCards, i + 1, existing,
                        [st EXCEPT !.cards = StoreUpdateCard(@, c),
                                   !.keys = @ \ {key},
                                   !.updated = @ \cup {c.id},
                                   !.changed = @ \cup
                                       (IF c = ExistingCard(existing, key) THEN {}
                                        ELSE {c.id})])
            ELSE ProcessDrafts(newCards, i + 1, existing,
                        [st EXCEPT !.cards = StoreCreateCard(@, newCard, storeNotes, storeDecks),
                                   !.err = @ \/ ~CreateCardOK(st.cards, newCard, storeNotes, storeDecks),
                                   !.toCreate = @ \cup {<<newCard.noteId, key>>}])

\* The deletes that end the loop body.
DeleteOrphans(done, orphans) ==
    [done EXCEPT !.cards = Drop(@, orphans), !.keys = {}, !.deleted = @ \cup orphans]

\* The map is built from the cards read, the drafts are processed in order,
\* and what is left in the map is deleted.
Reconcile(existing, newCards, st) ==
    LET done == ProcessDrafts(newCards, 1, existing,
                              [st EXCEPT !.keys = ExistingKeys(existing)])
    IN DeleteOrphans(done, Orphans(existing, done.keys))

\* The deck of the first card read, or deck 1 for a note without cards.
RegenDeck(existing) == IF Len(existing) > 0 THEN existing[1].deckId ELSE 1

RegenRead(nts, note, existing, st) ==
    Reconcile(existing, GenerateCards(nts, note, RegenDeck(existing)),
              [st EXCEPT !.regenerated = @ \cup {note.id}])

\* The body of the loop over notes: read, compile, reconcile, persist.
RegenNote(nts, note, st) == RegenRead(nts, note, GetCardsByNote(st.cards, note.id), st)

RECURSIVE RegenNotes(_, _, _, _)
RegenNotes(nts, notes, i, st) ==
    IF i > Len(notes) THEN st
    ELSE RegenNotes(nts, notes, i + 1, RegenNote(nts, notes[i], st))

RegenStart(cards) ==
    [cards |-> cards, keys |-> {}, err |-> FALSE, toCreate |-> {},
     updated |-> {}, changed |-> {}, deleted |-> {}, regenerated |-> {}]

regenerateCardsForNoteType(nts, ntName, cards) ==
    RegenNotes(nts, GetNotesByType(storeNotes, ntName), 1, RegenStart(cards))

-----------------------------------------------------------------------------
(* Request inputs *)

X == <<Txt("x")>>
Y == <<Txt("y")>>
Blank == <<Txt(" ")>>
ClozeText == <<Txt("The "), Cz(1, "a", ""), Txt(" of "), Cz(2, "b", "h")>>

Optional == "Basic (optional reversed card)"

NoteInputs ==
    { [type |-> Optional, fieldMap |-> [f \in {"Front", "Back", "Add Reverse"} |->
          IF f = "Front" THEN X ELSE IF f = "Back" THEN Y ELSE r]] : r \in {Blank, Y} }

DeckIds == {1}

NoEdit == [qFmt |-> None, aFmt |-> None, ifFieldNonEmpty |-> None, deckOverride |-> None]

TemplateEdits ==
    { [nt |-> Optional, template |-> "Card 2 (optional reverse)",
       req |-> [NoEdit EXCEPT !.ifFieldNonEmpty = Some(""),
                              !.qFmt = Some(<<Lit("Reverse: "), Tok("", "Back")>>)]],
      [nt |-> Optional, template |-> "Card 2 (optional reverse)",
       req |-> [NoEdit EXCEPT !.ifFieldNonEmpty = Some("Add Reverse")]] }

NoCardEdit == [flag |-> None, marked |-> None, suspended |-> None]

CardEdits ==
    { [NoCardEdit EXCEPT !.flag = Some(3), !.marked = Some(TRUE), !.suspended = Some(TRUE)] }

TypeIn == "Basic (type in the answer)"

\* Renames: onto an existing name that comes earlier or later in the list, of a
\* field used by a {{type:...}} token, of a gate field, onto a reserved name,
\* and of a field that does not exist.
RenameEdits ==
    { [nt |-> Optional, old |-> "Back", new |-> "Front"],
      [nt |-> Optional, old |-> "Front", new |-> "Back"],
      [nt |-> TypeIn, old |-> "Back", new |-> "Answer"],
      [nt |-> Optional, old |-> "Add Reverse", new |-> "Rev"],
      [nt |-> Optional, old |-> "Front", new |-> "Tags"],
      [nt |-> TypeIn, old |-> "Extra", new |-> "More"] }

\* Removals: of a gate field, and of a field that does not exist.
RemoveEdits ==
    { [nt |-> Optional, f |-> "Add Reverse"],
      [nt |-> Optional, f |-> "Extra"] }

\* A note type reachable by template edits in which the gated template comes
\* before an ungated one.
GatedFirst ==
    [builtins[Optional] EXCEPT !.templates[1].ifFieldNonEmpty = "Add Reverse",
                               !.templates[2].ifFieldNonEmpty = ""]

CompileTypes ==
    {builtins["Basic"], builtins["Basic (and reversed card)"], builtins[Optional],
     builtins[TypeIn], GatedFirst}

FieldValues == {Empty, Blank, X}

\* Notes with and without a value for the gate field.
CompileFieldMaps ==
    [{"Front", "Back", "Add Reverse"} -> FieldValues] \cup [{"Front", "Back"} -> FieldValues]

CompileInputs ==
    { [nt |-> nt, note |-> [id |-> 1, type |-> nt.name, fieldMap |-> fm, usn |-> 0]] :
        nt \in CompileTypes, fm \in CompileFieldMaps }

-----------------------------------------------------------------------------
(* The state after InitDefaultCollection on an empty database *)

\* The locals of a goroutine that handles no request.
Idle == [kind |-> "", pc |-> "idle", id |-> 0, usn |-> 0, card |-> 0]

Goroutines == 1..MaxRequests

NoRequests == [g \in Goroutines |-> Idle]

Init ==
    /\ noteTypes = builtins
    /\ storeNoteTypes = builtins
    /\ memNotes = << >>
    /\ storeNotes = << >>
    /\ memCards = << >>
    /\ storeCards = << >>
    /\ memDecks = {}
    /\ storeDecks = {}
    /\ nextNoteID = 1
    /\ nextCardID = 1
    /\ nextDeckID = 1
    /\ usn = 0
    /\ last = NoLast
    /\ regen = NoRegen
    /\ cardOps = 0
    /\ cIn = << >>
    /\ cOut = << >>
    /\ inflight = NoRequests

-----------------------------------------------------------------------------
(* Handlers *)

\* POST /decks: Collection.NewDeck, then the INSERT; ids bounds the ids given out.
CreateDeckWithin(ids) ==
    /\ nextDeckID \in ids
    /\ memDecks' = memDecks \cup {nextDeckID}
    /\ storeDecks' = storeDecks \cup {nextDeckID}
    /\ nextDeckID' = nextDeckID + 1
    /\ last' = [NoLast EXCEPT !.op = "CreateDeck"]
    /\ UNCHANGED <<noteTypes, storeNoteTypes, memNotes, storeNotes, memCards, storeCards,
                   nextNoteID, nextCardID, usn, regen, cardOps, cIn, cOut, inflight>>

CreateDeck == CreateDeckWithin(DeckIds)

\* The cards of Collection.AddNote, with the ids it allocates.
AddNoteCards(nt, n, deckID) ==
    LET genCards == generateCardsFromNote(nt, n, deckID)
    IN [i \in 1..Len(genCards) |->
          [genCards[i] EXCEPT !.id = nextCardID + i - 1, !.usn = n.usn]]

\* INSERT the cards one by one; the handler returns at the first failure.
RECURSIVE PersistCards(_, _, _, _, _)
PersistCards(cards, cs, i, notes, decks) ==
    IF i > Len(cs) \/ ~CreateCardOK(cards, cs[i], notes, decks) THEN cards
    ELSE PersistCards(StoreCreateCard(cards, cs[i], notes, decks), cs, i + 1, notes, decks)

\* POST /notes: Collection.AddNote, then the INSERTs of the note and its cards.
\* AddNote returns its error for an unknown note type before it allocates.
\* maxID bounds the note ids given out.
CreateNoteUpTo(in, deckID, maxID) ==
    /\ nextNoteID <= maxID
    /\ IF in.type \notin DOMAIN noteTypes
       THEN /\ last' = [NoLast EXCEPT !.op = "CreateNote", !.nt = in.type, !.deck = deckID, !.ok = FALSE,
                           !.rejected = TRUE]
            /\ UNCHANGED <<memNotes, memCards, nextCardID, storeNotes, storeCards,
                           nextNoteID, usn>>
       ELSE /\ LET n == [id |-> nextNoteID, type |-> in.type, fieldMap |-> in.fieldMap,
                         usn |-> usn + 1]
                   notes == Put(storeNotes, n.id, n)
               IN \E cs \in {AddNoteCards(noteTypes[in.type], n, deckID)} :
                  \E stored \in {PersistCards(storeCards, cs, 1, notes, storeDecks)} :
                  /\ memNotes' = Put(memNotes, n.id, n)
                  /\ memCards' = [id \in (DOMAIN memCards) \cup {cs[i].id : i \in 1..Len(cs)} |->
                                    IF id \in DOMAIN memCards THEN memCards[id]
                                    ELSE cs[id - nextCardID + 1]]
                  /\ nextCardID' = nextCardID + Len(cs)
                  /\ storeNotes' = notes
                  /\ storeCards' = stored
                  /\ last' = [NoLast EXCEPT !.op = "CreateNote", !.nt = in.type, !.deck = deckID,
                                 !.ok = \A i \in 1..Len(cs) : cs[i].id \in DOMAIN stored,
                                 !.err = \E i \in 1..Len(cs) : cs[i].id \notin DOMAIN stored]
            /\ nextNoteID' = nextNoteID + 1
            /\ usn' = usn + 1
    /\ UNCHANGED <<noteTypes, storeNoteTypes, memDecks, storeDecks, nextDeckID, regen,
                   cardOps, cIn, cOut, inflight>>

CreateNote(in, deckID) == CreateNoteUpTo(in, deckID, MaxNotes)

\* POST /cards/{id}/answer: the in-memory card is rescheduled and written out;
\* Collection.Answer fails for a card the in-memory collection does not hold.
AnswerCard(id) ==
    /\ cardOps < MaxCardOps
    /\ IF id \notin DOMAIN memCards
       THEN /\ last' = [NoLast EXCEPT !.op = "AnswerCard", !.ok = FALSE, !.rejected = TRUE,
                               !.card = id]
            /\ UNCHANGED <<memCards, storeCards>>
       ELSE LET card == [memCards[id] EXCEPT !.srs = Repeat(@)]
            IN /\ memCards' = Put(memCards, id, card)
               /\ storeCards' = StoreUpdateCard(storeCards, card)
               \* AddRevlog: the revlog row references the cards table.
               /\ last' = [NoLast EXCEPT !.op = "AnswerCard", !.card = id,
                              !.ok = id \in DOMAIN storeCards,
                              !.err = id \notin DOMAIN storeCards]
    /\ cardOps' = cardOps + 1
    /\ UNCHANGED <<noteTypes, storeNoteTypes, memNotes, storeNotes, memDecks, storeDecks,
                   nextNoteID, nextCardID, nextDeckID, usn, regen, cIn, cOut, inflight>>

\* An edit that resets what the request leaves out.
EditedCardDefaults(card, req) ==
    [card EXCEPT !.flag = IF req.flag # None THEN req.flag[1] ELSE 0,
                 !.marked = IF req.marked # None THEN req.marked[1] ELSE FALSE,
                 !.suspended = IF req.suspended # None THEN req.suspended[1] ELSE FALSE]

EditedCard(card, req) ==
    LET c1 == IF req.flag # None THEN [card EXCEPT !.flag = req.flag[1]] ELSE card
        c2 == IF req.marked # None THEN [c1 EXCEPT !.marked = req.marked[1]] ELSE c1
    IN IF req.suspended # None THEN [c2 EXCEPT !.suspended = req.suspended[1]] ELSE c2

\* PATCH /cards/{id}: the stored card is read, edited, written, then cached;
\* maxOps bounds the card requests handled.
UpdateCardUpTo(id, req, maxOps) ==
    /\ cardOps < maxOps
    /\ id \in DOMAIN storeCards
    /\ IF req.flag # None /\ (req.flag[1] < 0 \/ req.flag[1] > 7)
       THEN /\ last' = [NoLast EXCEPT !.op = "UpdateCard", !.ok = FALSE, !.card = id,
                           !.req = req]
            /\ UNCHANGED <<memCards, storeCards>>
       ELSE LET card == EditedCard(storeCards[id], req)
            IN /\ storeCards' = StoreUpdateCard(storeCards, card)
               /\ memCards' = IF id \in DOMAIN memCards THEN Put(memCards, id, card)
                              ELSE memCards
               /\ last' = [NoLast EXCEPT !.op = "UpdateCard", !.card = id, !.req = req]
    /\ cardOps' = cardOps + 1
    /\ UNCHANGED <<noteTypes, storeNoteTypes, memNotes, storeNotes, memDecks, storeDecks,
                   nextNoteID, nextCardID, nextDeckID, usn, regen, cIn, cOut, inflight>>

UpdateCard(id, req) == UpdateCardUpTo(id, req, MaxCardOps)

TemplateIndex(nt, templateName) ==
    LET is == {i \in 1..Len(nt.templates) : nt.templates[i].name = templateName}
    IN IF is = {} THEN 0 ELSE CHOOSE i \in is : \A j \in is : i <= j

EditedTemplate(t, req) ==
    LET t1 == IF req.qFmt # None THEN [t EXCEPT !.qFmt = req.qFmt[1]] ELSE t
        t2 == IF req.aFmt # None THEN [t1 EXCEPT !.aFmt = req.aFmt[1]] ELSE t1
        t3 == IF req.ifFieldNonEmpty # None
              THEN [t2 EXCEPT !.ifFieldNonEmpty = req.ifFieldNonEmpty[1]] ELSE t2
    IN IF req.deckOverride # None
       THEN [t3 EXCEPT !.deckOverride = req.deckOverride[1]] ELSE t3

\* PATCH /note-types/{name}/templates/{templateName}
UpdateTemplate(ntName, templateName, req) ==
    /\ ntName \in DOMAIN noteTypes
    /\ TemplateIndex(noteTypes[ntName], templateName) # 0
    /\ LET i == TemplateIndex(noteTypes[ntName], templateName)
           nt == [noteTypes[ntName] EXCEPT !.templates[i] = EditedTemplate(@, req)]
           nts == [noteTypes EXCEPT ![ntName] = nt]
       IN \E r \in {regenerateCardsForNoteType(nts, ntName, storeCards)} :
          /\ noteTypes' = nts
          /\ storeNoteTypes' = [storeNoteTypes EXCEPT ![ntName] = nt]
          /\ storeCards' = r.cards
          /\ last' = [NoLast EXCEPT !.op = "UpdateTemplate", !.nt = ntName,
                         !.err = r.err, !.regenerated = r.regenerated,
                         !.toCreate = r.toCreate, !.updated = r.updated,
                         !.changed = r.changed,
                         !.deleted = r.deleted]
    /\ UNCHANGED <<memNotes, storeNotes, memCards, memDecks, storeDecks, nextNoteID,
                   nextCardID, nextDeckID, usn, regen, cardOps, cIn, cOut, inflight>>

\* reservedFieldNames
reservedFieldNames == {"Tags", "Type", "Deck", "Card", "FrontSide"}

FirstIndex(fields, f) ==
    LET is == {i \in 1..Len(fields) : fields[i] = f}
    IN IF is = {} THEN 0 ELSE CHOOSE i \in is : \A j \in is : i <= j

CountOf(fields, f) == Cardinality({i \in 1..Len(fields) : fields[i] = f})

\* strings.ReplaceAll(fmt, "{{"+old+"}}", "{{"+new+"}}"): only a token whose
\* whole text between the braces is the old name is rewritten.
RenamedPart(p, old, new) == IF p.k = "tok" /\ TokKey(p) = old THEN Tok("", new) ELSE p

RenamedFmt(fmt, old, new) == [j \in 1..Len(fmt) |-> RenamedPart(fmt[j], old, new)]

RenamedTemplate(t, old, new) ==
    [t EXCEPT !.qFmt = RenamedFmt(@, old, new),
              !.aFmt = RenamedFmt(@, old, new),
              !.ifFieldNonEmpty = IF @ = old THEN new ELSE @]

\* PATCH /note-types/{name}/fields/rename.  nt is a copy of the map entry that
\* shares its Fields array; the rename and its revert write into that array.
RenameField(ntName, old, new) ==
    /\ ntName \in DOMAIN noteTypes
    /\ LET nt == noteTypes[ntName]
           i == FirstIndex(nt.fields, old)
       IN IF old = "" \/ new = "" \/ new \in reservedFieldNames \/ i = 0
          THEN /\ last' = [NoLast EXCEPT !.op = "RenameField", !.ok = FALSE, !.nt = ntName,
                              !.old = old, !.new = new]
               /\ UNCHANGED <<noteTypes, storeNoteTypes>>
          ELSE LET renamed == [nt.fields EXCEPT ![i] = new]
               IN IF CountOf(renamed, new) > 1
                  THEN /\ noteTypes' = [noteTypes EXCEPT ![ntName].fields =
                                           [renamed EXCEPT ![FirstIndex(renamed, new)] = old]]
                       /\ UNCHANGED storeNoteTypes
                       /\ last' = [NoLast EXCEPT !.op = "RenameField", !.ok = FALSE,
                                      !.nt = ntName, !.old = old, !.new = new]
                  ELSE LET done == [nt EXCEPT !.fields = renamed,
                                       !.templates = [j \in 1..Len(nt.templates) |->
                                           RenamedTemplate(nt.templates[j], old, new)]]
                       IN /\ storeNoteTypes' = [storeNoteTypes EXCEPT ![ntName] = done]
                          /\ noteTypes' = [noteTypes EXCEPT ![ntName] = done]
                          /\ last' = [NoLast EXCEPT !.op = "RenameField", !.nt = ntName,
                                         !.old = old, !.new = new]
    /\ UNCHANGED <<memNotes, storeNotes, memCards, storeCards, memDecks, storeDecks,
                   nextNoteID, nextCardID, nextDeckID, usn, regen, cardOps, cIn, cOut, inflight>>

\* DELETE /note-types/{name}/fields
RemoveField(ntName, f) ==
    /\ ntName \in DOMAIN noteTypes
    /\ LET nt == noteTypes[ntName]
           newFields == SelectSeq(nt.fields, LAMBDA g : g # f)
       IN IF f = "" \/ Len(nt.fields) <= 1 \/ FirstIndex(nt.fields, f) = 0
          THEN /\ last' = [NoLast EXCEPT !.op = "RemoveField", !.ok = FALSE, !.nt = ntName,
                              !.old = f]
               /\ UNCHANGED <<noteTypes, storeNoteTypes>>
          ELSE /\ storeNoteTypes' = [storeNoteTypes EXCEPT ![ntName] =
                                        [nt EXCEPT !.fields = newFields]]
               /\ noteTypes' = [noteTypes EXCEPT ![ntName].fields = newFields]
               /\ last' = [NoLast EXCEPT !.op = "RemoveField", !.nt = ntName, !.old = f]
    /\ UNCHANGED <<memNotes, storeNotes, memCards, storeCards, memDecks, storeDecks,
                   nextNoteID, nextCardID, nextDeckID, usn, regen, cardOps, cIn, cOut, inflight>>

-----------------------------------------------------------------------------
(* UpdateTemplate as the steps another request can come between: nothing   *)
(* serialises the handlers, and each storage call is a statement of its    *)
(* own.  The writes for one note are taken as a single step.               *)

\* The handler up to the start of the loop over the notes of the type.
UpdateTemplateBegin(ntName, templateName, req) ==
    /\ regen.pc = "idle"
    /\ ntName \in DOMAIN noteTypes
    /\ TemplateIndex(noteTypes[ntName], templateName) # 0
    /\ LET i == TemplateIndex(noteTypes[ntName], templateName)
           nt == [noteTypes[ntName] EXCEPT !.templates[i] = EditedTemplate(@, req)]
           notes == GetNotesByType(storeNotes, ntName)
       IN /\ noteTypes' = [noteTypes EXCEPT ![ntName] = nt]
          /\ storeNoteTypes' = [storeNoteTypes EXCEPT ![ntName] = nt]
          /\ regen' = IF Len(notes) = 0 THEN NoRegen
                      ELSE [pc |-> "read", nt |-> ntName, notes |-> notes, i |-> 1,
                            existing |-> << >>, newCards |-> << >>]
          /\ last' = [NoLast EXCEPT !.op = "UpdateTemplateBegin", !.nt = ntName]
    /\ UNCHANGED <<memNotes, storeNotes, memCards, storeCards, memDecks, storeDecks,
                   nextNoteID, nextCardID, nextDeckID, usn, cardOps, cIn, cOut, inflight>>

\* GetCardsByNote and GenerateCards for the note the loop is at.
RegenReadStep ==
    /\ regen.pc = "read"
    /\ LET note == regen.notes[regen.i]
           existing == GetCardsByNote(storeCards, note.id)
       IN regen' = [regen EXCEPT !.pc = "write", !.existing = existing,
                       !.newCards = GenerateCards(noteTypes, note, RegenDeck(existing))]
    /\ last' = [NoLast EXCEPT !.op = "RegenRead", !.nt = regen.nt]
    /\ UNCHANGED <<noteTypes, storeNoteTypes, memNotes, storeNotes, memCards, storeCards,
                   memDecks, storeDecks, nextNoteID, nextCardID, nextDeckID, usn, cardOps,
                   cIn, cOut, inflight>>

\* The updates, creates and deletes for that note, from the cards read earlier.
RegenWriteStep ==
    /\ regen.pc = "write"
    /\ \E r \in {Reconcile(regen.existing, regen.newCards,
                           [RegenStart(storeCards) EXCEPT
                               !.regenerated = {regen.notes[regen.i].id}])} :
          /\ storeCards' = r.cards
          /\ last' = [NoLast EXCEPT !.op = "RegenWrite", !.nt = regen.nt,
                         !.err = r.err, !.regenerated = r.regenerated,
                         !.toCreate = r.toCreate, !.updated = r.updated,
                         !.changed = r.changed, !.deleted = r.deleted]
    /\ regen' = IF regen.i = Len(regen.notes) THEN NoRegen
                ELSE [regen EXCEPT !.pc = "read", !.i = @ + 1,
                                   !.existing = << >>, !.newCards = << >>]
    /\ UNCHANGED <<noteTypes, storeNoteTypes, memNotes, storeNotes, memCards, memDecks,
                   storeDecks, nextNoteID, nextCardID, nextDeckID, usn, cardOps, cIn, cOut, inflight>>

-----------------------------------------------------------------------------
(* Compilation of one note, on its own *)

Compile ==
    /\ cIn # << >>
    /\ cOut = None
    /\ cOut' = Some(generateCardsFromNote(cIn.nt, cIn.note, 1))
    /\ last' = [NoLast EXCEPT !.op = "Compile", !.nt = cIn.nt.name]
    /\ UNCHANGED <<noteTypes, storeNoteTypes, memNotes, storeNotes, memCards, storeCards,
                   memDecks, storeDecks, nextNoteID, nextCardID, nextDeckID, usn, regen,
                   cardOps, cIn, inflight>>

-----------------------------------------------------------------------------
(* Requests handled one at a time *)

CardIds == (DOMAIN memCards) \cup (DOMAIN storeCards)

Next ==
    \/ CreateDeck
    \/ \E in \in NoteInputs, deckID \in DeckIds : CreateNote(in, deckID)
    \/ \E e \in TemplateEdits : UpdateTemplate(e.nt, e.template, e.req)
    \/ \E id \in CardIds : AnswerCard(id)
    \/ \E id \in CardIds, req \in CardEdits : UpdateCard(id, req)

Spec == Init /\ [][Next]_vars

\* The note-type editor: field renames and removals beside template edits.
NextFields ==
    \/ CreateDeck
    \/ \E in \in NoteInputs, deckID \in DeckIds : CreateNote(in, deckID)
    \/ \E e \in TemplateEdits : UpdateTemplate(e.nt, e.template, e.req)
    \/ \E e \in RenameEdits : RenameField(e.nt, e.old, e.new)
    \/ \E e \in RemoveEdits : RemoveField(e.nt, e.f)

SpecFields == Init /\ [][NextFields]_vars

\* Requests served concurrently: card requests between the steps of a
\* regeneration.
NextConc ==
    \/ CreateDeck
    \/ \E in \in NoteInputs, deckID \in DeckIds : CreateNote(in, deckID)
    \/ \E e \in TemplateEdits : UpdateTemplateBegin(e.nt, e.template, e.req)
    \/ RegenReadStep
    \/ RegenWriteStep
    \/ \E id \in CardIds : AnswerCard(id)
    \/ \E id \in CardIds, req \in CardEdits : UpdateCard(id, req)

SpecConc == Init /\ [][NextConc]_vars

\* Compilation alone, over every input of CompileInputs.
InitCompile ==
    /\ noteTypes = builtins
    /\ storeNoteTypes = builtins
    /\ memNotes = << >>
    /\ storeNotes = << >>
    /\ memCards = << >>
    /\ storeCards = << >>
    /\ memDecks = {}
    /\ storeDecks = {}
    /\ nextNoteID = 1
    /\ nextCardID = 1
    /\ nextDeckID = 1
    /\ usn = 0
    /\ last = NoLast
    /\ regen = NoRegen
    /\ cardOps = 0
    /\ cIn \in CompileInputs
    /\ cOut = None
    /\ inflight = NoRequests

NextCompile == Compile

SpecCompile == InitCompile /\ [][NextCompile]_vars

-----------------------------------------------------------------------------
(* Properties of regeneration and of the card requests *)

StoredIdsOf(cards, noteID) == {id \in DOMAIN cards : cards[id].noteId = noteID}

CompiledKeys(nts, note) ==
    LET cs == generateCardsFromNote(nts[note.type], note, 1)
    IN {CardKey(cs[i]) : i \in 1..Len(cs)}

CompiledCard(nts, note, key) ==
    LET cs == generateCardsFromNote(nts[note.type], note, 1)
    IN cs[CHOOSE i \in 1..Len(cs) : CardKey(cs[i]) = key]

\* C1: once UpdateTemplate and its regeneration have completed without a
\* storage error, every stored note of the edited type has stored cards with
\* pairwise distinct (templateName, ordinal) keys, and those keys are exactly
\* the keys the note compiles to under the updated templates.
C1_RegenerationExactCards ==
    (last.op = "UpdateTemplate" /\ ~last.err) =>
        \A nid \in DOMAIN storeNotes :
            storeNotes[nid].type = last.nt =>
                LET ids == StoredIdsOf(storeCards, nid)
                IN /\ \A a, b \in ids :
                        a # b => CardKey(storeCards[a]) # CardKey(storeCards[b])
                   /\ {CardKey(storeCards[id]) : id \in ids}
                          = CompiledKeys(noteTypes, storeNotes[nid])

\* A regeneration without storage error that created a card for one note and
\* rewrote a card of another.
C1_Witness ==
    /\ last.op = "UpdateTemplate"
    /\ ~last.err
    /\ last.toCreate # {}
    /\ last.changed # {}

\* C2: a stored card matched by (templateName, ordinal) is written back with
\* its id, noteId, deckId, scheduling state, flag, marked and suspended as
\* they were stored; its front and back become the draft's.
C2_MatchedCardKeepsState ==
    [][last'.op = "UpdateTemplate" =>
         \A id \in last'.updated :
            /\ id \in DOMAIN storeCards
            /\ id \in DOMAIN storeCards'
            /\ LET before == storeCards[id]
                   after == storeCards'[id]
                   draft == CompiledCard(noteTypes', storeNotes[before.noteId],
                                         CardKey(before))
               IN /\ after.id = before.id
                  /\ after.noteId = before.noteId
                  /\ after.deckId = before.deckId
                  /\ after.srs = before.srs
                  /\ after.flag = before.flag
                  /\ after.marked = before.marked
                  /\ after.suspended = before.suspended
                  /\ after.front = draft.front
                  /\ after.back = draft.back]_vars

\* A card that was answered and flagged, then had its content rewritten by a
\* regeneration.
C2_Witness ==
    /\ last.op = "UpdateTemplate"
    /\ \E id \in last.changed :
          /\ id \in DOMAIN storeCards
          /\ storeCards[id].srs.reps > 0 \/ storeCards[id].flag # 0

\* C3: an AnswerCard or UpdateCard request leaves every stored card's noteId,
\* templateName, ordinal, front and back as they were stored before it.
C3_CardRequestsKeepContent ==
    [][last'.op \in {"AnswerCard", "UpdateCard"} =>
         \A id \in DOMAIN storeCards :
            /\ id \in DOMAIN storeCards'
            /\ storeCards'[id].noteId = storeCards[id].noteId
            /\ storeCards'[id].templateName = storeCards[id].templateName
            /\ storeCards'[id].ordinal = storeCards[id].ordinal
            /\ storeCards'[id].front = storeCards[id].front
            /\ storeCards'[id].back = storeCards[id].back]_vars

\* C4: every draft that matches no existing card of its note is persisted by
\* the regeneration under an id no stored card had, with a fresh scheduling
\* state (the decks the cards go to exist).
C4_CreatedCardsPersisted ==
    [][(last'.op = "UpdateTemplate" /\ DeckIds \subseteq storeDecks) =>
         \A k \in last'.toCreate :
            \E id \in (DOMAIN storeCards') \ (DOMAIN storeCards) :
               /\ storeCards'[id].noteId = k[1]
               /\ CardKey(storeCards'[id]) = k[2]
               /\ storeCards'[id].srs = newDueNow]_vars

\* C5: the write-back of a regeneration leaves the scheduling state, flag,
\* marked and suspended values of every card it rewrites as they are stored
\* when it writes: what a request stored since the regeneration read the
\* note's cards is not overwritten.
C5_RegenerationAtomicPerNote ==
    [][last'.op = "RegenWrite" =>
         \A id \in last'.updated \cap DOMAIN storeCards :
            /\ id \in DOMAIN storeCards'
            /\ storeCards'[id].srs = storeCards[id].srs
            /\ storeCards'[id].flag = storeCards[id].flag
            /\ storeCards'[id].marked = storeCards[id].marked
            /\ storeCards'[id].suspended = storeCards[id].suspended]_vars

\* C6: when a successful UpdateTemplate, RenameField or RemoveField request
\* has completed, the cards of every stored note of that note type have been
\* recompiled and reconciled.
C6_EveryEditRegenerates ==
    (last.op \in {"UpdateTemplate", "RenameField", "RemoveField"} /\ last.ok) =>
        last.regenerated = {nid \in DOMAIN storeNotes : storeNotes[nid].type = last.nt}

\* C7: a rename of an existing field onto another existing field name is
\* rejected and leaves the field list and the templates of the note type as
\* they were, in memory and in storage.
C7_RenameOntoExistingChangesNothing ==
    [][(/\ last'.op = "RenameField"
        /\ last'.old # last'.new
        /\ FirstIndex(noteTypes[last'.nt].fields, last'.old) # 0
        /\ FirstIndex(noteTypes[last'.nt].fields, last'.new) # 0) =>
         /\ ~last'.ok
         /\ noteTypes'[last'.nt].fields = noteTypes[last'.nt].fields
         /\ noteTypes'[last'.nt].templates = noteTypes[last'.nt].templates
         /\ storeNoteTypes'[last'.nt] = storeNoteTypes[last'.nt]]_vars

RefersTo(p, f) == p.k = "tok" /\ p.n = f

FmtRenamed(before, after, old, new) ==
    /\ Len(after) = Len(before)
    /\ \A j \in 1..Len(before) :
          /\ RefersTo(before[j], old) => RefersTo(after[j], new)
          /\ ~RefersTo(after[j], old)

\* C8: after a successful rename every template token that referred to the
\* old field, plain or filtered, refers to the new one, none refers to the
\* old one, and a gate on the old field is a gate on the new one.
C8_RenameRewritesEveryToken ==
    [][(last'.op = "RenameField" /\ last'.ok) =>
         LET before == noteTypes[last'.nt].templates
             after == noteTypes'[last'.nt].templates
         IN /\ Len(after) = Len(before)
            /\ \A i \in 1..Len(before) :
                  /\ FmtRenamed(before[i].qFmt, after[i].qFmt, last'.old, last'.new)
                  /\ FmtRenamed(before[i].aFmt, after[i].aFmt, last'.old, last'.new)
                  /\ before[i].ifFieldNonEmpty = last'.old =>
                         after[i].ifFieldNonEmpty = last'.new]_vars

\* C9: after a successful removal every template gated on the removed field
\* has no gate, and no gate names a field missing from the field list.
C9_RemoveClearsGate ==
    [][(last'.op = "RemoveField" /\ last'.ok) =>
         LET before == noteTypes[last'.nt].templates
             after == noteTypes'[last'.nt]
         IN \A i \in 1..Len(after.templates) :
               /\ before[i].ifFieldNonEmpty = last'.old =>
                      after.templates[i].ifFieldNonEmpty = ""
               /\ after.templates[i].ifFieldNonEmpty # "" =>
                      FirstIndex(after.fields, after.templates[i].ifFieldNonEmpty) # 0]_vars

-----------------------------------------------------------------------------
(* Properties of compilation *)

GateOpen(tmpl, note) ==
    \/ tmpl.ifFieldNonEmpty = ""
    \/ ~TrimSpaceEmpty(Lookup(note.fieldMap, tmpl.ifFieldNonEmpty))

CardsOf(cards, tmpl) == {i \in 1..Len(cards) : cards[i].templateName = tmpl.name}

\* C10: a non-cloze template yields exactly one card, of ordinal 0, when its
\* gate is unset or names a field that is non-blank after trimming, and no
\* card otherwise, whatever the note's other templates yield; a Basic note
\* compiles to exactly one card of ordinal 0.
C10_GateDecidesCard ==
    cOut # None =>
        LET cards == cOut[1]
            templates == cIn.nt.templates
        IN /\ \A t \in 1..Len(templates) :
                 ~templates[t].isCloze =>
                     /\ Cardinality(CardsOf(cards, templates[t]))
                            = IF GateOpen(templates[t], cIn.note) THEN 1 ELSE 0
                     /\ \A i \in CardsOf(cards, templates[t]) : cards[i].ordinal = 0
           /\ cIn.nt.name = "Basic" => Len(cards) = 1 /\ cards[1].ordinal = 0

\* A note whose first template is gated on a blank field and whose second
\* template still yields its card.
C10_Witness ==
    /\ cOut # None
    /\ Len(cIn.nt.templates) = 2
    /\ ~GateOpen(cIn.nt.templates[1], cIn.note)
    /\ Len(cOut[1]) = 1
    /\ cOut[1][1].templateName = cIn.nt.templates[2].name

-----------------------------------------------------------------------------
(* Compilation of cloze notes *)

\* The built-in Cloze type after PATCH .../templates/Cloze {ifFieldNonEmpty: "Extra"}.
GatedCloze == [builtins["Cloze"] EXCEPT !.templates[1].ifFieldNonEmpty = "Extra"]

ClozeSegments == {Txt("x"), Cz(1, "a", ""), Cz(2, "b", "h"), Cz(0, "z", "")}

\* Texts of at most two segments: no marker, repeated markers, markers in
\* descending order, a marker numbered 0.
ClozeTexts ==
    {Empty} \cup {<<a>> : a \in ClozeSegments}
            \cup {<<a, b>> : a \in ClozeSegments, b \in ClozeSegments}

ClozeInputs ==
    { [nt |-> nt,
       note |-> [id |-> 1, type |-> nt.name, usn |-> 0,
                 fieldMap |-> [f \in {"Text", "Extra"} |-> IF f = "Text" THEN t ELSE e]]] :
        nt \in {builtins["Cloze"], GatedCloze}, t \in ClozeTexts, e \in FieldValues }

\* Every variable but the harness at its initial value.
Quiet ==
    /\ noteTypes = builtins
    /\ storeNoteTypes = builtins
    /\ memNotes = << >>
    /\ storeNotes = << >>
    /\ memCards = << >>
    /\ storeCards = << >>
    /\ memDecks = {}
    /\ storeDecks = {}
    /\ nextNoteID = 1
    /\ nextCardID = 1
    /\ nextDeckID = 1
    /\ usn = 0
    /\ last = NoLast
    /\ regen = NoRegen
    /\ cardOps = 0
    /\ inflight = NoRequests

InitCloze == Quiet /\ cIn \in ClozeInputs /\ cOut = None

NextCloze == Compile

SpecCloze == InitCloze /\ [][NextCloze]_vars

\* The positive numbers N of the {{cN::...}} markers of a text.
MarkerOrdinals(text) ==
    {text[i].ord : i \in {j \in 1..Len(text) : text[j].k = "cz" /\ text[j].ord > 0}}

\* The ordinals of the cards of one template, in the order compiled.
OrdinalsOf(cards, tmpl) ==
    LET own == SelectSeq(cards, LAMBDA c : c.templateName = tmpl.name)
    IN [i \in 1..Len(own) |-> own[i].ordinal]

\* C11: for every cloze template, whatever its other settings, the compiled
\* cards of the template are one card per distinct positive marker number of
\* the note's Text field, in ascending order of the numbers, and none when
\* the text has no marker.
C11_ClozeCardPerMarker ==
    cOut # None =>
        \A t \in 1..Len(cIn.nt.templates) :
            cIn.nt.templates[t].isCloze =>
                OrdinalsOf(cOut[1], cIn.nt.templates[t])
                    = SortInts(MarkerOrdinals(Lookup(cIn.note.fieldMap, "Text")))

-----------------------------------------------------------------------------
(* Properties of a repeated regeneration *)

\* Notes that a gate on Front and a gate on Back tell apart, and the template
\* edits that move the gate of the second template from one field to another.
GateNotes ==
    { [type |-> Optional, fieldMap |-> [f \in {"Front", "Back", "Add Reverse"} |->
          IF f = "Front" THEN X ELSE Blank]],
      [type |-> Optional, fieldMap |-> [f \in {"Front", "Back", "Add Reverse"} |->
          IF f = "Back" THEN Y ELSE Blank]] }

GateEdits ==
    { [nt |-> Optional, template |-> "Card 2 (optional reverse)",
       req |-> [NoEdit EXCEPT !.ifFieldNonEmpty = Some(g)]] : g \in {"Front", "Back"} }

NextGates ==
    \/ CreateDeck
    \/ \E in \in GateNotes, deckID \in DeckIds : CreateNote(in, deckID)
    \/ \E e \in GateEdits : UpdateTemplate(e.nt, e.template, e.req)

SpecGates == Init /\ [][NextGates]_vars

\* Two UpdateTemplate requests in a row for one note type, the second leaving
\* the note type as it was: a regeneration run again on unchanged input.
RegeneratedAgain ==
    /\ last.op = "UpdateTemplate"
    /\ last'.op = "UpdateTemplate"
    /\ last'.nt = last.nt
    /\ noteTypes' = noteTypes

\* C12: a regeneration run again with the note type, its notes and their
\* cards unchanged since the run before stores no new card and deletes none,
\* and changes a stored card only where the rendered front or back differs
\* from the stored one.
C12_RegenerationIdempotent ==
    [][RegeneratedAgain =>
         /\ DOMAIN storeCards' = DOMAIN storeCards
         /\ last'.deleted = {}
         /\ \A id \in DOMAIN storeCards :
               storeCards'[id] # storeCards[id] =>
                   \/ storeCards'[id].front # storeCards[id].front
                   \/ storeCards'[id].back # storeCards[id].back]_vars

\* C13: a card that a regeneration matches and writes back has its usn
\* strictly increased when the rendered front or back differs from the stored
\* one, and unchanged when both are equal to the stored ones.
C13_UsnBumpedOnContentChange ==
    [][last'.op = "UpdateTemplate" =>
         \A id \in last'.updated \cap DOMAIN storeCards :
            LET before == storeCards[id]
                after == storeCards'[id]
            IN IF after.front # before.front \/ after.back # before.back
               THEN after.usn > before.usn
               ELSE after.usn = before.usn]_vars

-----------------------------------------------------------------------------
(* Regeneration when reading a note's cards fails *)

\* The loop body when GetCardsByNote may return an error: the error is
\* dropped, the cards read are nil, and the body goes on with deck 1.
RegenNoteIO(nts, note, st, readFails) ==
    RegenRead(nts, note,
              IF note.id \in readFails THEN << >> ELSE GetCardsByNote(st.cards, note.id),
              st)

RECURSIVE RegenNotesIO(_, _, _, _, _)
RegenNotesIO(nts, notes, i, st, readFails) ==
    IF i > Len(notes) THEN st
    ELSE RegenNotesIO(nts, notes, i + 1, RegenNoteIO(nts, notes[i], st, readFails), readFails)

\* PATCH /note-types/{name}/templates/{templateName}, the reads of the cards
\* of the notes in readFails failing.
UpdateTemplateIO(ntName, templateName, req, readFails) ==
    /\ ntName \in DOMAIN noteTypes
    /\ TemplateIndex(noteTypes[ntName], templateName) # 0
    /\ LET i == TemplateIndex(noteTypes[ntName], templateName)
           nt == [noteTypes[ntName] EXCEPT !.templates[i] = EditedTemplate(@, req)]
           nts == [noteTypes EXCEPT ![ntName] = nt]
       IN \E r \in {RegenNotesIO(nts, GetNotesByType(storeNotes, ntName), 1,
                                 RegenStart(storeCards), readFails)} :
          /\ noteTypes' = nts
          /\ storeNoteTypes' = [storeNoteTypes EXCEPT ![ntName] = nt]
          /\ storeCards' = r.cards
          /\ last' = [NoLast EXCEPT !.op = "UpdateTemplateIO", !.nt = ntName,
                         !.err = r.err, !.regenerated = r.regenerated,
                         !.toCreate = r.toCreate, !.updated = r.updated,
                         !.changed = r.changed, !.deleted = r.deleted,
                         !.readFailed = readFails]
    /\ UNCHANGED <<memNotes, storeNotes, memCards, memDecks, storeDecks, nextNoteID,
                   nextCardID, nextDeckID, usn, regen, cardOps, cIn, cOut, inflight>>

NextIO ==
    \/ CreateDeck
    \/ \E in \in NoteInputs, deckID \in DeckIds : CreateNote(in, deckID)
    \/ \E e \in TemplateEdits, readFails \in SUBSET (DOMAIN storeNotes) :
          UpdateTemplateIO(e.nt, e.template, e.req, readFails)

SpecIO == Init /\ [][NextIO]_vars

\* C14: when a storage operation fails for one note during a regeneration,
\* every note of the type is still processed, and a note whose cards could
\* not be read has no card created and none deleted.
C14_ReadFailureTouchesNothing ==
    [][last'.op = "UpdateTemplateIO" =>
         /\ last'.regenerated
               = {nid \in DOMAIN storeNotes : storeNotes[nid].type = last'.nt}
         /\ \A nid \in last'.readFailed :
               StoredIdsOf(storeCards', nid) = StoredIdsOf(storeCards, nid)]_vars

-----------------------------------------------------------------------------
(* Duplicate search.  A text is a sequence of pieces; the search inputs are  *)
(* made of pieces that are a run of spaces or one letter, so that trimming  *)
(* drops whole pieces and lower-casing maps a piece to a piece.              *)

Pieces(v) == [i \in 1..Len(v) |-> SegText(v[i])]

RECURSIVE TrimLeft(_)
TrimLeft(ps) == IF ps # << >> /\ IsSpace(Head(ps)) THEN TrimLeft(Tail(ps)) ELSE ps

RECURSIVE TrimRight(_)
TrimRight(ps) ==
    IF ps # << >> /\ IsSpace(ps[Len(ps)]) THEN TrimRight(SubSeq(ps, 1, Len(ps) - 1)) ELSE ps

\* strings.TrimSpace
TrimSpace(ps) == TrimRight(TrimLeft(ps))

\* strings.ToLower, on the letters the inputs use.
ToLower(ps) ==
    [i \in 1..Len(ps) |-> IF ps[i] = "X" THEN "x" ELSE IF ps[i] = "Y" THEN "y" ELSE ps[i]]

\* strings.ToLower(strings.TrimSpace(value))
Normalized(v) == Concat(ToLower(TrimSpace(Pieces(v))))

\* A search that takes a card in any deck for a card in the deck asked for.
noteHasCardInAnyDeck(cards, noteID, deckID) ==
    \E id \in DOMAIN cards : cards[id].noteId = noteID

\* SELECT COUNT(*) FROM cards WHERE note_id = ? AND deck_id = ?
noteHasCardInDeck(cards, noteID, deckID) ==
    \E id \in DOMAIN cards : cards[id].noteId = noteID /\ cards[id].deckId = deckID

\* The ids of the notes returned, in the order of the scan of the table.
FindDuplicateNotes(notes, cards, fieldName, value, deckID) ==
    SeqOfSet({nid \in DOMAIN notes :
        /\ fieldName \in DOMAIN notes[nid].fieldMap
        /\ Normalized(notes[nid].fieldMap[fieldName]) = Normalized(value)
        /\ deckID > 0 => noteHasCardInDeck(cards, nid, deckID)})

\* POST /notes/check-duplicate
CheckDuplicate(fieldName, value, deckID) ==
    /\ last' = [NoLast EXCEPT !.op = "CheckDuplicate", !.field = fieldName,
                   !.value = value, !.deck = deckID,
                   !.found = IF FieldText(value) = "" THEN << >>
                             ELSE FindDuplicateNotes(storeNotes, storeCards, fieldName,
                                                     value, deckID)]
    /\ UNCHANGED <<noteTypes, storeNoteTypes, memNotes, storeNotes, memCards, storeCards,
                   memDecks, storeDecks, nextNoteID, nextCardID, nextDeckID, usn, regen,
                   cardOps, cIn, cOut, inflight>>

\* Basic notes whose Front is a letter, the same letter in upper case between
\* spaces, two letters, blank, or empty.
DupFronts ==
    {<<Txt("x")>>, <<Txt(" "), Txt("X"), Txt(" ")>>, <<Txt("x"), Txt("y")>>, Blank, Empty}

DupNotes ==
    { [type |-> "Basic", fieldMap |-> [f \in {"Front", "Back"} |->
          IF f = "Front" THEN v ELSE Y]] : v \in DupFronts }

DupValues == {Empty, Blank, <<Txt("x")>>, <<Txt("X"), Txt(" ")>>, <<Txt("y")>>}

\* Field names asked for; deck 0 is a request without deckId.
DupFields == {"Front", "Back", "Extra"}
DupDecks == {0, 1, 2}

NextDup ==
    \/ CreateDeck
    \/ \E in \in DupNotes, deckID \in DeckIds : CreateNote(in, deckID)
    \/ \E f \in DupFields, v \in DupValues, d \in DupDecks : CheckDuplicate(f, v, d)

SpecDup == Init /\ [][NextDup]_vars

\* C15: a duplicate search whose value is empty or only whitespace returns
\* nothing, whatever notes are stored.
C15_BlankValueFindsNothing ==
    (last.op = "CheckDuplicate" /\ TrimSpaceEmpty(last.value)) => last.found = << >>

\* The notes a search has to return.
Matching(notes, cards, fieldName, value, deckID) ==
    {nid \in DOMAIN notes :
        /\ Normalized(Lookup(notes[nid].fieldMap, fieldName)) = Normalized(value)
        /\ deckID # 0 => \E id \in DOMAIN cards :
                             cards[id].noteId = nid /\ cards[id].deckId = deckID}

-----------------------------------------------------------------------------
(* The field editor: AddField, ReorderFields, SetSortField *)

\* nt.Fields with the name inserted at the 0-based position, or appended when
\* no position is given or the position is not an index of the list.
InsertField(fields, name, position) ==
    IF position # None /\ position[1] >= 0 /\ position[1] < Len(fields)
    THEN SubSeq(fields, 1, position[1]) \o <<name>>
         \o SubSeq(fields, position[1] + 1, Len(fields))
    ELSE Append(fields, name)

\* A handler that adds the field before it looks for a collision.
AddFieldThenCheck(ntName, fieldName, position) ==
    /\ ntName \in DOMAIN noteTypes
    /\ LET nt == noteTypes[ntName]
           added == [nt EXCEPT !.fields = InsertField(nt.fields, fieldName, position)]
       IN IF fieldName = "" \/ fieldName \in reservedFieldNames
          THEN /\ last' = [NoLast EXCEPT !.op = "AddField", !.ok = FALSE, !.nt = ntName,
                              !.new = fieldName]
               /\ UNCHANGED <<noteTypes, storeNoteTypes>>
          ELSE /\ noteTypes' = [noteTypes EXCEPT ![ntName] = added]
               /\ IF FirstIndex(nt.fields, fieldName) # 0
                  THEN /\ last' = [NoLast EXCEPT !.op = "AddField", !.ok = FALSE,
                                      !.nt = ntName, !.new = fieldName]
                       /\ UNCHANGED storeNoteTypes
                  ELSE /\ last' = [NoLast EXCEPT !.op = "AddField", !.nt = ntName,
                                      !.new = fieldName]
                       /\ storeNoteTypes' = [storeNoteTypes EXCEPT ![ntName] = added]
    /\ UNCHANGED <<memNotes, storeNotes, memCards, storeCards, memDecks, storeDecks,
                   nextNoteID, nextCardID, nextDeckID, usn, regen, cardOps, cIn, cOut, inflight>>

\* POST /note-types/{name}/fields
AddField(ntName, fieldName, position) ==
    /\ ntName \in DOMAIN noteTypes
    /\ LET nt == noteTypes[ntName]
           added == [nt EXCEPT !.fields = InsertField(nt.fields, fieldName, position)]
       IN IF \/ fieldName = ""
             \/ fieldName \in reservedFieldNames
             \/ FirstIndex(nt.fields, fieldName) # 0
          THEN /\ last' = [NoLast EXCEPT !.op = "AddField", !.ok = FALSE, !.nt = ntName,
                              !.new = fieldName]
               /\ UNCHANGED <<noteTypes, storeNoteTypes>>
          ELSE /\ storeNoteTypes' = [storeNoteTypes EXCEPT ![ntName] = added]
               /\ noteTypes' = [noteTypes EXCEPT ![ntName] = added]
               /\ last' = [NoLast EXCEPT !.op = "AddField", !.nt = ntName,
                              !.new = fieldName]
    /\ UNCHANGED <<memNotes, storeNotes, memCards, storeCards, memDecks, storeDecks,
                   nextNoteID, nextCardID, nextDeckID, usn, regen, cardOps, cIn, cOut, inflight>>

\* The loop over the requested names: each must be in the set of names not
\* yet seen, and leaves it.
RECURSIVE AllKnown(_, _, _)
AllKnown(candidate, i, existingFields) ==
    IF i > Len(candidate) THEN existingFields = {}
    ELSE /\ candidate[i] \in existingFields
         /\ AllKnown(candidate, i + 1, existingFields \ {candidate[i]})

\* A validation that compares the lengths only.
SameLength(fields, candidate) == Len(candidate) = Len(fields)

\* The validation of ReorderFields.
SameFields(fields, candidate) ==
    /\ Len(candidate) = Len(fields)
    /\ AllKnown(candidate, 1, {fields[i] : i \in 1..Len(fields)})

\* A reorder that re-points the sort field at the field it designated.
ReorderedFollowingSortField(nt, candidate) ==
    [nt EXCEPT !.fields = candidate,
               !.sortFieldIndex =
                   IF nt.sortFieldIndex + 1 \in 1..Len(nt.fields)
                   THEN FirstIndex(candidate, nt.fields[nt.sortFieldIndex + 1]) - 1
                   ELSE @]

\* nt.Fields = req.Fields
Reordered(nt, candidate) == [nt EXCEPT !.fields = candidate]

\* PUT /note-types/{name}/fields/reorder
ReorderFields(ntName, candidate) ==
    /\ ntName \in DOMAIN noteTypes
    /\ LET nt == noteTypes[ntName]
       IN IF ~SameFields(nt.fields, candidate)
          THEN /\ last' = [NoLast EXCEPT !.op = "ReorderFields", !.ok = FALSE,
                              !.nt = ntName, !.fields = candidate]
               /\ UNCHANGED <<noteTypes, storeNoteTypes>>
          ELSE /\ storeNoteTypes' = [storeNoteTypes EXCEPT ![ntName] = Reordered(nt, candidate)]
               /\ noteTypes' = [noteTypes EXCEPT ![ntName] = Reordered(nt, candidate)]
               /\ last' = [NoLast EXCEPT !.op = "ReorderFields", !.nt = ntName,
                              !.fields = candidate]
    /\ UNCHANGED <<memNotes, storeNotes, memCards, storeCards, memDecks, storeDecks,
                   nextNoteID, nextCardID, nextDeckID, usn, regen, cardOps, cIn, cOut, inflight>>

\* PUT /note-types/{name}/sort-field
SetSortField(ntName, fieldIndex) ==
    /\ ntName \in DOMAIN noteTypes
    /\ LET nt == noteTypes[ntName]
           set == [nt EXCEPT !.sortFieldIndex = fieldIndex]
       IN IF fieldIndex < 0 \/ fieldIndex >= Len(nt.fields)
          THEN /\ last' = [NoLast EXCEPT !.op = "SetSortField", !.ok = FALSE, !.nt = ntName]
               /\ UNCHANGED <<noteTypes, storeNoteTypes>>
          ELSE /\ storeNoteTypes' = [storeNoteTypes EXCEPT ![ntName] = set]
               /\ noteTypes' = [noteTypes EXCEPT ![ntName] = set]
               /\ last' = [NoLast EXCEPT !.op = "SetSortField", !.nt = ntName]
    /\ UNCHANGED <<memNotes, storeNotes, memCards, storeCards, memDecks, storeDecks,
                   nextNoteID, nextCardID, nextDeckID, usn, regen, cardOps, cIn, cOut, inflight>>

\* Requests to the field editor of the Basic note type: names that collide,
\* reserved and new names, positions inside and outside the list, candidate
\* orders that are and are not permutations.
EditorTypes == {"Basic"}
EditorNames == {"Front", "Back", "Extra"}
AddNames == {"Extra", "Front", "Tags", ""}
AddPositions == {None, Some(0), Some(MaxPosition)}
EditorRenames ==
    { <<"Back", "Front">>, <<"Front", "Back">>, <<"Front", "Q">>, <<"Back", "Card">>,
      <<"Extra", "Extra">> }
ReorderCandidates ==
    {<<a, b>> : a \in EditorNames, b \in EditorNames}
        \cup {<<a, b, c>> : a \in EditorNames, b \in EditorNames, c \in EditorNames}
SortIndexes == {-1, 0, 1, MaxPosition}

NextEditor ==
    \/ \E nt \in EditorTypes, f \in AddNames, p \in AddPositions : AddField(nt, f, p)
    \/ \E nt \in EditorTypes, e \in EditorRenames : RenameField(nt, e[1], e[2])
    \/ \E nt \in EditorTypes, f \in EditorNames : RemoveField(nt, f)
    \/ \E nt \in EditorTypes, c \in ReorderCandidates : ReorderFields(nt, c)
    \/ \E nt \in EditorTypes, i \in SortIndexes : SetSortField(nt, i)

SpecEditor == Init /\ [][NextEditor]_vars

\* C17: a rejected AddField, RemoveField or ReorderFields request leaves the
\* fields, templates and sortFieldIndex of the note type as they were, in
\* memory and in storage.
C17_RejectedEditChangesNothing ==
    [][(last'.op \in {"AddField", "RemoveField", "ReorderFields"} /\ ~last'.ok) =>
         /\ noteTypes'[last'.nt] = noteTypes[last'.nt]
         /\ storeNoteTypes'[last'.nt] = storeNoteTypes[last'.nt]]_vars

\* The removal of the only field left, rejected.
C17_Witness ==
    /\ last.op = "RemoveField"
    /\ ~last.ok
    /\ noteTypes[last.nt].fields = <<last.old>>

\* The field list of a note type is not empty, names no field twice and holds
\* no reserved name.
FieldsWellFormed(nt) ==
    /\ Len(nt.fields) >= 1
    /\ \A i, j \in 1..Len(nt.fields) : nt.fields[i] = nt.fields[j] => i = j
    /\ \A i \in 1..Len(nt.fields) : nt.fields[i] \notin reservedFieldNames

\* C18: after any sequence of AddField, RenameField, RemoveField and
\* ReorderFields requests every note type has at least one field, its field
\* names are pairwise distinct, and none of them is a reserved name.
C18_FieldListWellFormed ==
    \A n \in DOMAIN noteTypes :
        /\ FieldsWellFormed(noteTypes[n])
        /\ FieldsWellFormed(storeNoteTypes[n])

\* A note type whose list was edited by an accepted add, after a rename and a
\* removal changed it.
C18_Witness ==
    /\ last.op = "AddField"
    /\ last.ok
    /\ noteTypes[last.nt].fields = <<"Extra", "Q">>

\* The candidate holds every current field exactly once.
IsPermutation(fields, candidate) ==
    /\ Len(candidate) = Len(fields)
    /\ \A f \in EditorNames \cup {fields[i] : i \in 1..Len(fields)} :
           CountOf(candidate, f) = CountOf(fields, f)

\* C19: ReorderFields accepts a candidate list exactly when it is a permutation
\* of the current fields; on acceptance the fields become the candidate, in
\* memory and in storage, and sortFieldIndex keeps its numeric value.
C19_ReorderAcceptsPermutations ==
    [][last'.op = "ReorderFields" =>
         /\ last'.ok <=> IsPermutation(noteTypes[last'.nt].fields, last'.fields)
         /\ last'.ok =>
              /\ noteTypes'[last'.nt].fields = last'.fields
              /\ storeNoteTypes'[last'.nt].fields = last'.fields
              /\ noteTypes'[last'.nt].sortFieldIndex = noteTypes[last'.nt].sortFieldIndex
              /\ storeNoteTypes'[last'.nt].sortFieldIndex
                     = noteTypes[last'.nt].sortFieldIndex]_vars

\* An accepted reorder that moved the field the sort index pointed at.
C19_Witness ==
    /\ last.op = "ReorderFields"
    /\ last.ok
    /\ noteTypes[last.nt].sortFieldIndex = 1
    /\ noteTypes[last.nt].fields = <<"Back", "Front">>

\* C29: after any sequence of SetSortField, AddField, RenameField,
\* RemoveField and ReorderFields requests the sortFieldIndex of every note
\* type is a position of its field list: 0 <= sortFieldIndex < number of
\* fields.
C29_SortFieldIndexInRange ==
    \A n \in DOMAIN noteTypes :
        /\ noteTypes[n].sortFieldIndex \in 0..(Len(noteTypes[n].fields) - 1)
        /\ storeNoteTypes[n].sortFieldIndex \in 0..(Len(storeNoteTypes[n].fields) - 1)

-----------------------------------------------------------------------------
(* Compilation of templates that use {{FrontSide}} *)

FrontSide == Tok("", "FrontSide")

\* Formats an UpdateTemplate request can give the card of the Basic note type.
FrontSideQFmts == {QFront, <<Tok("", "Front")>>, <<Lit("Q")>>}
FrontSideAFmts ==
    {ABack, <<FrontSide>>, <<FrontSide, Lit("\n\n"), Tok("", "Back")>>,
     <<FrontSide, FrontSide>>}

\* Field values, among them texts that read like tokens.
FrontSideValues == {Empty, X, <<Txt("{{FrontSide}}")>>, <<Txt("{{Back}}")>>}

FrontSideInputs ==
    { [nt |-> [builtins["Basic"] EXCEPT !.templates[1].qFmt = q, !.templates[1].aFmt = a],
       note |-> [id |-> 1, type |-> "Basic", usn |-> 0,
                 fieldMap |-> [f \in {"Front", "Back"} |-> IF f = "Front" THEN v ELSE w]]] :
        q \in FrontSideQFmts, a \in FrontSideAFmts,
        v \in FrontSideValues, w \in FrontSideValues }

InitFrontSide == Quiet /\ cIn \in FrontSideInputs /\ cOut = None

NextFrontSide == Compile

SpecFrontSide == InitFrontSide /\ [][NextFrontSide]_vars

\* A back format rendered with each {{FrontSide}} replaced by the rendered
\* front, once, and every other part rendered from the fields.
RECURSIVE BackWithFrontSide(_, _, _)
BackWithFrontSide(aFmt, fields, front) ==
    IF aFmt = << >> THEN ""
    ELSE (IF Head(aFmt) = FrontSide THEN front
          ELSE renderTemplatePart(Head(aFmt), fields))
         \o BackWithFrontSide(Tail(aFmt), fields, front)

\* C20: the back of a compiled non-cloze card is its template's aFmt with
\* every {{FrontSide}} token replaced by the card's rendered front, one level
\* deep: tokens inside the substituted text stay literal.
C20_FrontSideSubstituted ==
    cOut # None =>
        \A t \in 1..Len(cIn.nt.templates) :
            ~cIn.nt.templates[t].isCloze =>
                \A i \in CardsOf(cOut[1], cIn.nt.templates[t]) :
                    cOut[1][i].back
                        = BackWithFrontSide(cIn.nt.templates[t].aFmt, cIn.note.fieldMap,
                                            cOut[1][i].front)

-----------------------------------------------------------------------------
(* Rendering of cloze texts *)

\* Markers with and without a hint, with a blank hint, sharing an ordinal,
\* and numbered 0; texts of at most two segments.
RenderSegments ==
    {Txt("x"), Cz(1, "a", ""), Cz(2, "b", "h"), Cz(1, "c", " "), Cz(0, "z", "")}
RenderTexts ==
    {Empty} \cup {<<a>> : a \in RenderSegments}
            \cup {<<a, b>> : a \in RenderSegments, b \in RenderSegments}
RenderTargets == 1..MaxOrdinal

RenderInputs ==
    { [text |-> t, targetOrdinal |-> n, reveal |-> r] :
        t \in RenderTexts, n \in RenderTargets, r \in BOOLEAN }

InitRender == Quiet /\ cIn \in RenderInputs /\ cOut = None

\* One call of renderCloze.
RenderCloze ==
    /\ cOut = None
    /\ cOut' = Some(renderCloze(cIn.text, cIn.targetOrdinal, cIn.reveal))
    /\ UNCHANGED <<noteTypes, storeNoteTypes, memNotes, storeNotes, memCards, storeCards,
                   memDecks, storeDecks, nextNoteID, nextCardID, nextDeckID, usn, last,
                   regen, cardOps, cIn, inflight>>

NextRender == RenderCloze

SpecRender == InitRender /\ [][NextRender]_vars

\* What one segment of a cloze text shows on a side of the card for target T.
Shown(g, T, back) ==
    CASE g.k = "txt" -> g.s
      [] g.k = "cz" /\ g.ord # T -> g.s
      [] g.k = "cz" /\ g.ord = T /\ back -> "**" \o g.s \o "**"
      [] g.k = "cz" /\ g.ord = T /\ ~back /\ g.hint \notin {"", " "} -> "[" \o g.hint \o "]"
      [] OTHER -> "[...]"

\* C21: for every cloze text, target ordinal and side, a marker of the target
\* ordinal renders on the front as [hint] when its hint is not blank and as
\* [...] otherwise, and on the back as its answer emphasized; every other
\* marker renders as its answer on both sides.
C21_ClozeRendering ==
    cOut # None =>
        cOut[1] = Concat([i \in 1..Len(cIn.text) |->
                            Shown(cIn.text[i], cIn.targetOrdinal, cIn.reveal)])

\* The front of the card for marker 2 of a text whose first marker is not
\* the target: its answer shows, the target shows its hint.
C21_Witness ==
    /\ cIn.text = <<Cz(1, "a", ""), Cz(2, "b", "h")>>
    /\ cIn.targetOrdinal = 2
    /\ ~cIn.reveal
    /\ cOut = Some("a[h]")

-----------------------------------------------------------------------------
(* Note creation with unknown note types and incomplete field maps *)

\* Requests whose note type is unknown, and field maps that lack fields of
\* the note type or carry a key that is no field.
AddNoteTypes == {"Basic", Optional, "Unknown"}
AddNoteFieldMaps ==
    { [f \in D |-> X] : D \in {{}, {"Front"}, {"Front", "Back"}, {"Back", "Bogus"},
                               {"Front", "Add Reverse"}} }
AddNoteInputs == { [type |-> t, fieldMap |-> m] : t \in AddNoteTypes, m \in AddNoteFieldMaps }

NextAddNote ==
    \/ CreateDeck
    \/ \E in \in AddNoteInputs, deckID \in DeckIds : CreateNote(in, deckID)

SpecAddNote == Init /\ [][NextAddNote]_vars

\* A field map with the empty string under every field of the note type it
\* does not hold.
Completed(fieldMap, nt) ==
    [k \in (DOMAIN fieldMap) \cup {nt.fields[i] : i \in 1..Len(nt.fields)} |->
        IF k \in DOMAIN fieldMap THEN fieldMap[k] ELSE Empty]

\* C22: AddNote fails exactly when the note type is unknown, and then adds no
\* note and no card and allocates no id; for a known type it succeeds for
\* every field map, and the cards are those of the note with the empty string
\* under every absent key.
C22_CompileFailsOnlyOnUnknownType ==
    [][last'.op = "CreateNote" =>
         /\ last'.rejected <=> last'.nt \notin DOMAIN noteTypes
         /\ last'.rejected =>
              UNCHANGED <<memNotes, memCards, storeNotes, storeCards, nextNoteID,
                          nextCardID, nextDeckID, usn>>
         /\ ~last'.rejected =>
              /\ nextNoteID \in DOMAIN memNotes'
              /\ LET n == memNotes'[nextNoteID]
                     full == [n EXCEPT !.fieldMap = Completed(n.fieldMap, noteTypes[n.type])]
                     cs == AddNoteCards(noteTypes[n.type], full, last'.deck)
                 IN /\ nextCardID' = nextCardID + Len(cs)
                    /\ \A i \in 1..Len(cs) : memCards'[nextCardID + i - 1] = cs[i]]_vars

\* A Basic note created without a Back value: its card's back ends where the
\* token stood.
C22_Witness ==
    /\ last.op = "CreateNote"
    /\ ~last.rejected
    /\ \E id \in DOMAIN memCards :
          /\ DOMAIN memNotes[memCards[id].noteId].fieldMap = {"Front"}
          /\ memCards[id].front = "Q: x"
          /\ memCards[id].back = "A: "

-----------------------------------------------------------------------------
(* Deck overrides *)

\* The names of the decks of a stored collection with two decks, by id.
DeckNames == <<"Default", "Other">>

\* The collection as loaded from a store that holds the two decks.
InitOverride ==
    /\ noteTypes = builtins
    /\ storeNoteTypes = builtins
    /\ memNotes = << >>
    /\ storeNotes = << >>
    /\ memCards = << >>
    /\ storeCards = << >>
    /\ memDecks = DOMAIN DeckNames
    /\ storeDecks = DOMAIN DeckNames
    /\ nextNoteID = 1
    /\ nextCardID = 1
    /\ nextDeckID = Len(DeckNames) + 1
    /\ usn = 0
    /\ last = NoLast
    /\ regen = NoRegen
    /\ cardOps = 0
    /\ cIn = << >>
    /\ cOut = << >>
    /\ inflight = NoRequests

\* Edits of the second template of the optional-reverse note type: its deck
\* override set and cleared, its gate cleared and restored.
OverrideEdits ==
    { [nt |-> Optional, template |-> "Card 2 (optional reverse)", req |-> r] :
        r \in { [NoEdit EXCEPT !.deckOverride = Some("Other")],
                [NoEdit EXCEPT !.deckOverride = Some("")],
                [NoEdit EXCEPT !.ifFieldNonEmpty = Some("")],
                [NoEdit EXCEPT !.ifFieldNonEmpty = Some("Add Reverse")] } }

NextOverride ==
    \/ \E in \in NoteInputs, deckID \in DeckIds : CreateNote(in, deckID)
    \/ \E e \in OverrideEdits : UpdateTemplate(e.nt, e.template, e.req)

SpecOverride == InitOverride /\ [][NextOverride]_vars

\* The id of the deck a name resolves to.
DeckOfName(name) == CHOOSE id \in DOMAIN DeckNames : DeckNames[id] = name

\* The template that produced a card of a note.
TemplateOf(nts, notes, card) ==
    LET nt == nts[notes[card.noteId].type]
    IN nt.templates[TemplateIndex(nt, card.templateName)]

\* C23: a newly created card is placed in the deck its template's
\* deckOverride names when the override is set, and in the deck supplied by
\* the caller otherwise, at note creation and when regeneration creates it.
C23_DeckOverridePlacesCard ==
    [][\A id \in (DOMAIN storeCards') \ (DOMAIN storeCards) :
         LET card == storeCards'[id]
             tmpl == TemplateOf(noteTypes', storeNotes', card)
             supplied == IF last'.op = "CreateNote" THEN last'.deck
                         ELSE RegenDeck(GetCardsByNote(storeCards, card.noteId))
         IN card.deckId = IF tmpl.deckOverride # "" THEN DeckOfName(tmpl.deckOverride)
                          ELSE supplied]_vars

-----------------------------------------------------------------------------
(* Loading a stored collection *)

RECURSIVE MaxOf(_)
MaxOf(ids) ==
    IF ids = {} THEN 0
    ELSE LET x == CHOOSE y \in ids : TRUE
             m == MaxOf(ids \ {x})
         IN IF x > m THEN x ELSE m

\* A counter start that counts the rows instead of taking the largest id.
getRowCount(ids) == Cardinality(ids)

\* SELECT MAX(id): the largest id of a table, 0 for an empty table.
getMaxID(ids) == MaxOf(ids)

\* Stores to load from: decks, notes and cards whose ids have gaps; a stored
\* card belongs to a stored note and a stored deck, and may carry the id 0
\* that regeneration inserts.
StoredDeckSets == SUBSET {1, MaxStoredID}
StoredNoteSets == SUBSET {1, MaxStoredID}
StoredCardSets == SUBSET {0, 2, MaxStoredID}

StoredNote(id) ==
    [id |-> id, type |-> Optional, usn |-> 0,
     fieldMap |-> [f \in {"Front", "Back", "Add Reverse"} |->
                      IF f = "Front" THEN X ELSE IF f = "Back" THEN Y ELSE Blank]]

StoredCard(id, noteId) == Card(id, noteId, 1, "Card 1", 0, "Q: x", "A: y")

InitLoad ==
    /\ noteTypes = builtins
    /\ storeNoteTypes = builtins
    /\ memNotes = << >>
    /\ memCards = << >>
    /\ memDecks = {}
    /\ storeDecks \in StoredDeckSets
    /\ \E ns \in StoredNoteSets : storeNotes = [id \in ns |-> StoredNote(id)]
    /\ \E cs \in StoredCardSets :
          /\ cs # {} => 1 \in storeDecks /\ DOMAIN storeNotes # {}
          /\ storeCards = [id \in cs |-> StoredCard(id, getMaxID(DOMAIN storeNotes))]
    /\ nextNoteID = 1
    /\ nextCardID = 1
    /\ nextDeckID = 1
    /\ usn = 0
    /\ last = NoLast
    /\ regen = NoRegen
    /\ cardOps = 0
    /\ cIn = << >>
    /\ cOut = << >>
    /\ inflight = NoRequests

\* SQLiteStore.GetCollection, run once at start-up: the stored decks, notes
\* and cards are read and the counters set.  The collections row keeps the
\* usn it was created with, as no handler writes it.
GetCollection ==
    /\ last.op = "none"
    /\ memDecks' = storeDecks
    /\ memNotes' = storeNotes
    /\ memCards' = storeCards
    /\ noteTypes' = storeNoteTypes
    /\ nextDeckID' = getMaxID(storeDecks) + 1
    /\ nextNoteID' = getMaxID(DOMAIN storeNotes) + 1
    /\ nextCardID' = getMaxID(DOMAIN storeCards) + 1
    /\ usn' = 0
    /\ last' = [NoLast EXCEPT !.op = "GetCollection"]
    /\ UNCHANGED <<storeNoteTypes, storeNotes, storeCards, storeDecks, regen, cardOps,
                   cIn, cOut, inflight>>

\* The server handles requests once the collection is loaded.
Loaded == last.op # "none"

NextLoad ==
    \/ GetCollection
    \/ Loaded /\ CreateDeckWithin(1..MaxLoadedID)
    \/ Loaded /\ \E in \in NoteInputs, deckID \in DeckIds : CreateNoteUpTo(in, deckID, MaxLoadedID)

SpecLoad == InitLoad /\ [][NextLoad]_vars

\* C24: loading sets each next id to one more than the largest stored id of
\* its kind, and every id NewDeck or AddNote gives out afterwards is greater
\* than every deck, note or card id stored or given out before it.
C24_LoadedCountersAboveStoredIds ==
    [][/\ last'.op = "GetCollection" =>
            /\ nextDeckID' = MaxOf(storeDecks) + 1
            /\ nextNoteID' = MaxOf(DOMAIN storeNotes) + 1
            /\ nextCardID' = MaxOf(DOMAIN storeCards) + 1
       /\ last'.op = "CreateDeck" =>
            \A new \in memDecks' \ memDecks : \A id \in memDecks \cup storeDecks : new > id
       /\ (last'.op = "CreateNote" /\ ~last'.rejected) =>
            /\ \A new \in (DOMAIN memNotes') \ (DOMAIN memNotes) :
                  \A id \in (DOMAIN memNotes) \cup (DOMAIN storeNotes) : new > id
            /\ \A new \in (DOMAIN memCards') \ (DOMAIN memCards) :
                  \A id \in (DOMAIN memCards) \cup (DOMAIN storeCards) : new > id]_vars

\* A deck, a note and its cards created after a store with gaps in its ids
\* was loaded.
C24_Witness ==
    /\ last.op = "CreateNote"
    /\ MaxStoredID + 1 \in memDecks
    /\ MaxStoredID + 1 \in DOMAIN memNotes
    /\ 1 \notin DOMAIN memNotes
    /\ MaxStoredID + 1 \in DOMAIN memCards
    /\ 0 \in DOMAIN memCards

-----------------------------------------------------------------------------
(* The study queue *)

\* Clock readings and due times, in seconds.
Times == 1..MaxTime

DueCard(id, deckId, due, suspended) ==
    [Card(id, 1, deckId, "Card 1", 0, "Q: x", "A: y") EXCEPT
        !.srs = [reps |-> 1, due |-> due], !.suspended = suspended]

\* Stored cards of one note: two with any deck and due time, one of them
\* possibly suspended, and a third in deck 1.
DueCardSets ==
    { [id \in 1..3 |->
          IF id = 1 THEN DueCard(1, k1, d1, FALSE)
          ELSE IF id = 2 THEN DueCard(2, k2, d2, s2)
          ELSE DueCard(3, 1, 2, FALSE)] :
        k1 \in DOMAIN DeckNames, k2 \in DOMAIN DeckNames, d1 \in Times, d2 \in Times,
        s2 \in BOOLEAN }

\* A loaded collection with two decks, a note and its cards.
InitDue ==
    /\ noteTypes = builtins
    /\ storeNoteTypes = builtins
    /\ storeNotes = [id \in {1} |-> StoredNote(id)]
    /\ memNotes = storeNotes
    /\ storeCards \in DueCardSets
    /\ memCards = storeCards
    /\ memDecks = DOMAIN DeckNames
    /\ storeDecks = DOMAIN DeckNames
    /\ nextNoteID = 2
    /\ nextCardID = 4
    /\ nextDeckID = Len(DeckNames) + 1
    /\ usn = 0
    /\ last = NoLast
    /\ regen = NoRegen
    /\ cardOps = 0
    /\ cIn = << >>
    /\ cOut = << >>
    /\ inflight = NoRequests

\* A query that leaves out the test of the suspended column.
DueRowsWithSuspended(cards, deckID, now) ==
    {id \in DOMAIN cards : cards[id].deckId = deckID /\ cards[id].srs.due <= now}

\* WHERE deck_id = ? AND due <= ? AND suspended = 0
DueRows(cards, deckID, now) ==
    {id \in DOMAIN cards :
        /\ cards[id].deckId = deckID
        /\ cards[id].srs.due <= now
        /\ ~cards[id].suspended}

\* ORDER BY due LIMIT ?: the results the query can give.  Rows with equal due
\* come in an order the database chooses; a negative LIMIT is no limit.
OrderedLimited(cards, rows, limit) ==
    LET n == IF limit < 0 \/ limit > Cardinality(rows) THEN Cardinality(rows) ELSE limit
    IN { s \in [1..n -> rows] :
           /\ \A i, j \in 1..n : i < j =>
                 s[i] # s[j] /\ cards[s[i]].srs.due <= cards[s[j]].srs.due
           /\ \A i \in 1..n : \A id \in rows \ {s[k] : k \in 1..n} :
                 cards[s[i]].srs.due <= cards[id].srs.due }

\* SQLiteStore.GetDueCards
GetDueCardsResults(cards, deckID, limit, now) ==
    OrderedLimited(cards, DueRows(cards, deckID, now), limit)

\* GET /decks/{deckId}/due?limit=: a limit that is absent or not positive is
\* replaced by the default.
GetDueCards(deckID, limitParam, now) ==
    /\ now >= last.now
    /\ LET limit == IF limitParam # None /\ limitParam[1] > 0 THEN limitParam[1]
                    ELSE DefaultLimit
       IN \E found \in GetDueCardsResults(storeCards, deckID, limit, now) :
             last' = [NoLast EXCEPT !.op = "GetDueCards", !.deck = deckID,
                                    !.limit = limit, !.now = now, !.found = found]
    /\ UNCHANGED <<noteTypes, storeNoteTypes, memNotes, storeNotes, memCards, storeCards,
                   memDecks, storeDecks, nextNoteID, nextCardID, nextDeckID, usn, regen,
                   cardOps, cIn, cOut, inflight>>

DueDecks == DOMAIN DeckNames
LimitParams == {None, Some(0), Some(1), Some(2)}
SuspendEdits == { [NoCardEdit EXCEPT !.suspended = Some(b)] : b \in BOOLEAN }

NextDue ==
    \/ \E deckID \in DueDecks, l \in LimitParams, now \in Times : GetDueCards(deckID, l, now)
    \/ \E id \in DOMAIN storeCards, req \in SuspendEdits : UpdateCard(id, req)

SpecDue == InitDue /\ [][NextDue]_vars

\* C25: GetDueCards returns only cards of the given deck that are not
\* suspended and are due at the time of the call, in ascending order of due,
\* and at most limit of them; a suspended card is not in the result and a
\* deck without cards gives an empty result.
C25_DueCardsFiltered ==
    [][last'.op = "GetDueCards" =>
         LET found == last'.found
         IN /\ Len(found) <= last'.limit
            /\ \A i \in 1..Len(found) :
                  /\ found[i] \in DOMAIN storeCards
                  /\ storeCards[found[i]].deckId = last'.deck
                  /\ ~storeCards[found[i]].suspended
                  /\ storeCards[found[i]].srs.due <= last'.now
            /\ \A i, j \in 1..Len(found) :
                  i < j => storeCards[found[i]].srs.due <= storeCards[found[j]].srs.due
            /\ (\A id \in DOMAIN storeCards : storeCards[id].deckId # last'.deck) =>
                  found = << >>]_vars

\* A query cut by its limit, in a deck that also holds a due card suspended
\* by an earlier request.
C25_Witness ==
    /\ last.op = "GetDueCards"
    /\ last.limit = 1
    /\ Len(last.found) = 1
    /\ cardOps = 1
    /\ \E id \in DOMAIN storeCards :
          /\ storeCards[id].deckId = last.deck
          /\ storeCards[id].suspended
          /\ storeCards[id].srs.due < storeCards[last.found[1]].srs.due
    /\ \E id \in DOMAIN storeCards :
          /\ storeCards[id].deckId = last.deck
          /\ ~storeCards[id].suspended
          /\ storeCards[id].srs.due <= last.now
          /\ id # last.found[1]

-----------------------------------------------------------------------------
(* The in-memory card set against the stored card set *)

\* POST /cards/empty/delete: each id is deleted from storage and, the DELETE
\* having raised no error, from the in-memory collection.
DeleteEmptyCards(cardIDs) ==
    /\ IF cardIDs = {}
       THEN /\ last' = [NoLast EXCEPT !.op = "DeleteEmptyCards", !.ok = FALSE]
            /\ UNCHANGED <<memCards, storeCards>>
       ELSE /\ storeCards' = Drop(storeCards, cardIDs)
            /\ memCards' = Drop(memCards, cardIDs)
            /\ last' = [NoLast EXCEPT !.op = "DeleteEmptyCards", !.deleted = cardIDs]
    /\ UNCHANGED <<noteTypes, storeNoteTypes, memNotes, storeNotes, memDecks, storeDecks,
                   nextNoteID, nextCardID, nextDeckID, usn, regen, cardOps, cIn, cOut, inflight>>

NextSync ==
    \/ CreateDeck
    \/ \E in \in NoteInputs, deckID \in DeckIds : CreateNote(in, deckID)
    \/ \E e \in TemplateEdits : UpdateTemplate(e.nt, e.template, e.req)
    \/ \E id \in CardIds : AnswerCard(id)
    \/ \E id \in CardIds, req \in CardEdits : UpdateCard(id, req)
    \/ \E ids \in SUBSET CardIds : DeleteEmptyCards(ids)

SpecSync == Init /\ [][NextSync]_vars

\* The in-memory and the stored card set hold the same ids, and each card
\* the same front, back and scheduling state.
Synced(mem, store) ==
    /\ DOMAIN mem = DOMAIN store
    /\ \A id \in DOMAIN mem :
          /\ mem[id].front = store[id].front
          /\ mem[id].back = store[id].back
          /\ mem[id].srs = store[id].srs

\* C26: a request that completes without a storage failure leaves the
\* in-memory card set equal to the stored one (ids, fronts, backs, scheduling
\* states) if it found them equal, and AnswerCard succeeds for every card
\* that is in storage.
C26_MemoryMatchesStorage ==
    [][/\ (Synced(memCards, storeCards) /\ ~last'.err) => Synced(memCards', storeCards')
       /\ (last'.op = "AnswerCard" /\ last'.card \in DOMAIN storeCards) => ~last'.rejected]_vars

-----------------------------------------------------------------------------
(* What notes render after a field rename *)

\* The cards a note compiles to, as (templateName, ordinal, front, back).
Rendered(nt, note) ==
    LET cs == generateCardsFromNote(nt, note, 1)
    IN [i \in 1..Len(cs) |-> <<cs[i].templateName, cs[i].ordinal, cs[i].front, cs[i].back>>]

\* C27: after a successful RenameField every existing note of the note type
\* compiles, against the rewritten templates, to the same (templateName,
\* ordinal) keys with the same front and back as it did against the original
\* templates before the rename.
C27_RenamePreservesRendering ==
    [][(last'.op = "RenameField" /\ last'.ok) =>
         \A id \in DOMAIN storeNotes :
            storeNotes[id].type = last'.nt =>
               /\ id \in DOMAIN storeNotes'
               /\ id \in DOMAIN memNotes'
               /\ Rendered(noteTypes'[last'.nt], storeNotes'[id])
                      = Rendered(noteTypes[last'.nt], storeNotes[id])
               /\ Rendered(noteTypes'[last'.nt], memNotes'[id])
                      = Rendered(noteTypes[last'.nt], storeNotes[id])]_vars

-----------------------------------------------------------------------------
(* Requests that allocate ids, handled by concurrent goroutines *)

\* The collection with the deck the notes go to.
InitRace ==
    /\ noteTypes = builtins
    /\ storeNoteTypes = builtins
    /\ memNotes = << >>
    /\ storeNotes = << >>
    /\ memCards = << >>
    /\ storeCards = << >>
    /\ memDecks = {1}
    /\ storeDecks = {1}
    /\ nextNoteID = 1
    /\ nextCardID = 1
    /\ nextDeckID = 2
    /\ usn = 0
    /\ last = NoLast
    /\ regen = NoRegen
    /\ cardOps = 0
    /\ cIn = << >>
    /\ cOut = << >>
    /\ inflight = NoRequests

Others ==
    <<noteTypes, storeNoteTypes, last, regen, cardOps, cIn, cOut>>

\* The Basic note a request creates.
RaceNote(id, u) ==
    [id |-> id, type |-> "Basic", usn |-> u,
     fieldMap |-> [f \in {"Front", "Back"} |-> IF f = "Front" THEN X ELSE Y]]

\* id := c.nextDeckID
NewDeckRead(g) ==
    /\ inflight[g].pc = "idle"
    /\ inflight' = [inflight EXCEPT ![g] = [@ EXCEPT !.kind = "deck", !.pc = "incDeck",
                                                     !.id = nextDeckID]]
    /\ UNCHANGED <<memNotes, storeNotes, memCards, storeCards, memDecks, storeDecks,
                   nextNoteID, nextCardID, nextDeckID, usn>>
    /\ UNCHANGED Others

\* c.nextDeckID++ ; c.Decks[id] = d
NewDeckWrite(g) ==
    /\ inflight[g].pc = "incDeck"
    /\ nextDeckID' = inflight[g].id + 1
    /\ memDecks' = memDecks \cup {inflight[g].id}
    /\ inflight' = [inflight EXCEPT ![g].pc = "persistDeck"]
    /\ UNCHANGED <<memNotes, storeNotes, memCards, storeCards, storeDecks,
                   nextNoteID, nextCardID, usn>>
    /\ UNCHANGED Others

\* store.CreateDeck: the INSERT fails on a taken primary key.
PersistDeck(g) ==
    /\ inflight[g].pc = "persistDeck"
    /\ IF inflight[g].id \in storeDecks
       THEN /\ inflight' = [inflight EXCEPT ![g].pc = "failed"]
            /\ UNCHANGED storeDecks
       ELSE /\ inflight' = [inflight EXCEPT ![g].pc = "done"]
            /\ storeDecks' = storeDecks \cup {inflight[g].id}
    /\ UNCHANGED <<memNotes, storeNotes, memCards, storeCards, memDecks,
                   nextNoteID, nextCardID, nextDeckID, usn>>
    /\ UNCHANGED Others

\* noteID := c.nextNoteID
AddNoteRead(g) ==
    /\ inflight[g].pc = "idle"
    /\ inflight' = [inflight EXCEPT ![g] = [@ EXCEPT !.kind = "note", !.pc = "incNote",
                                                     !.id = nextNoteID]]
    /\ UNCHANGED <<memNotes, storeNotes, memCards, storeCards, memDecks, storeDecks,
                   nextNoteID, nextCardID, nextDeckID, usn>>
    /\ UNCHANGED Others

\* c.nextNoteID++ ; the load of c.USN for c.USN++
AddNoteWrite(g) ==
    /\ inflight[g].pc = "incNote"
    /\ nextNoteID' = inflight[g].id + 1
    /\ inflight' = [inflight EXCEPT ![g] = [@ EXCEPT !.pc = "incUSN", !.usn = usn]]
    /\ UNCHANGED <<memNotes, storeNotes, memCards, storeCards, memDecks, storeDecks,
                   nextCardID, nextDeckID, usn>>
    /\ UNCHANGED Others

\* the store of c.USN++ ; c.Notes[noteID] = n ; cardID := c.nextCardID
AddNoteUSN(g) ==
    /\ inflight[g].pc = "incUSN"
    /\ usn' = inflight[g].usn + 1
    /\ memNotes' = Put(memNotes, inflight[g].id, RaceNote(inflight[g].id, inflight[g].usn + 1))
    /\ inflight' = [inflight EXCEPT ![g] = [@ EXCEPT !.pc = "incCard", !.usn = @ + 1,
                                                     !.card = nextCardID]]
    /\ UNCHANGED <<storeNotes, memCards, storeCards, memDecks, storeDecks,
                   nextNoteID, nextCardID, nextDeckID>>
    /\ UNCHANGED Others

\* The card of the request's note, under the id the request read.
RaceCard(r) ==
    [generateCardsFromNote(builtins["Basic"], RaceNote(r.id, r.usn), 1)[1]
        EXCEPT !.id = r.card, !.usn = r.usn]

\* c.nextCardID++ ; c.Cards[cardID] = card
AddNoteCard(g) ==
    /\ inflight[g].pc = "incCard"
    /\ nextCardID' = inflight[g].card + 1
    /\ memCards' = Put(memCards, inflight[g].card, RaceCard(inflight[g]))
    /\ inflight' = [inflight EXCEPT ![g].pc = "persistNote"]
    /\ UNCHANGED <<memNotes, storeNotes, storeCards, memDecks, storeDecks,
                   nextNoteID, nextDeckID, usn>>
    /\ UNCHANGED Others

\* store.CreateNote, then store.CreateCard: the handler returns at the first
\* INSERT that fails.
PersistNote(g) ==
    /\ inflight[g].pc = "persistNote"
    /\ LET r == inflight[g]
       IN IF r.id \in DOMAIN storeNotes
          THEN /\ inflight' = [inflight EXCEPT ![g].pc = "failed"]
               /\ UNCHANGED <<storeNotes, storeCards>>
          ELSE /\ storeNotes' = Put(storeNotes, r.id, RaceNote(r.id, r.usn))
               /\ storeCards' = StoreCreateCard(storeCards, RaceCard(r), storeNotes', storeDecks)
               /\ inflight' = [inflight EXCEPT ![g].pc =
                                  IF CreateCardOK(storeCards, RaceCard(r), storeNotes', storeDecks)
                                  THEN "done" ELSE "failed"]
    /\ UNCHANGED <<memNotes, memCards, memDecks, storeDecks,
                   nextNoteID, nextCardID, nextDeckID, usn>>
    /\ UNCHANGED Others

NextRace ==
    \E g \in Goroutines :
        \/ NewDeckRead(g)
        \/ NewDeckWrite(g)
        \/ PersistDeck(g)
        \/ AddNoteRead(g)
        \/ AddNoteWrite(g)
        \/ AddNoteUSN(g)
        \/ AddNoteCard(g)
        \/ PersistNote(g)

SpecRace == InitRace /\ [][NextRace]_vars

Returned(g) == inflight[g].pc \in {"done", "failed"}

\* C28: once concurrently handled requests have returned, no two of them
\* gave the same id to two notes, to two cards or to two decks, and the
\* collection USN has grown by the number of notes added.
C28_ConcurrentIdsDistinct ==
    (\A g \in Goroutines : Returned(g)) =>
        /\ \A g, h \in Goroutines :
              (g # h /\ inflight[g].kind = inflight[h].kind) =>
                  /\ inflight[g].id # inflight[h].id
                  /\ inflight[g].kind = "note" => inflight[g].card # inflight[h].card
        /\ usn = Cardinality({g \in Goroutines : inflight[g].kind = "note"})

-----------------------------------------------------------------------------
(* Card flags *)

\* Requests with a flag inside and outside 0..7, alone and together with
\* marked and suspended, and requests without a flag.
FlagEdits ==
    { [NoCardEdit EXCEPT !.flag = Some(7)],
      [NoCardEdit EXCEPT !.flag = Some(0), !.marked = Some(TRUE)],
      [NoCardEdit EXCEPT !.flag = Some(8), !.marked = Some(TRUE), !.suspended = Some(TRUE)],
      [NoCardEdit EXCEPT !.flag = Some(-1)],
      [NoCardEdit EXCEPT !.suspended = Some(TRUE)],
      [NoCardEdit EXCEPT !.marked = Some(FALSE)] }

NextFlags ==
    \/ CreateDeck
    \/ \E in \in NoteInputs, deckID \in DeckIds : CreateNote(in, deckID)
    \/ \E id \in DOMAIN storeCards, req \in FlagEdits : UpdateCardUpTo(id, req, MaxFlagOps)

SpecFlags == Init /\ [][NextFlags]_vars

\* The card with the values the request supplies, everything else kept.
WithSupplied(card, req) ==
    [card EXCEPT !.flag = IF req.flag = None THEN @ ELSE req.flag[1],
                 !.marked = IF req.marked = None THEN @ ELSE req.marked[1],
                 !.suspended = IF req.suspended = None THEN @ ELSE req.suspended[1]]

\* C30: every stored card's flag stays in 0..7; an UpdateCard request with a
\* flag outside 0..7 is rejected and changes nothing in storage or in memory,
\* whatever else it carries, and an accepted one changes only the flag,
\* marked and suspended values it supplies.
C30_FlagInRange ==
    [][/\ \A id \in DOMAIN storeCards' : storeCards'[id].flag \in 0..7
       /\ last'.op = "UpdateCard" =>
            LET req == last'.req
                id == last'.card
            IN IF req.flag # None /\ req.flag[1] \notin 0..7
               THEN ~last'.ok /\ UNCHANGED <<storeCards, memCards>>
               ELSE /\ last'.ok
                    /\ storeCards' = [storeCards EXCEPT ![id] = WithSupplied(@, req)]
                    /\ memCards' = [memCards EXCEPT ![id] = WithSupplied(@, req)]]_vars

\* A request with flag 8, marked and suspended, rejected for a card that an
\* earlier request flagged.
C30_Witness ==
    /\ last.op = "UpdateCard"
    /\ ~last.ok
    /\ last.req.flag = Some(8)
    /\ last.req.suspended = Some(TRUE)
    /\ storeCards[last.card].flag = 7
    /\ ~storeCards[last.card].suspended
    /\ memCards[last.card] = storeCards[last.card]

====
